---- MODULE Spec2Model ----
(***************************************************************************)
(* A model of the ErisPulse Telegram adapter:                              *)
(*   - TelegramConverter (Converter.py): raw Telegram update -> OneBot12   *)
(*     event;                                                              *)
(*   - TelegramAdapter.Send (Core.py): the chained send DSL and the        *)
(*     translation of OneBot12 message segments into one Bot API call.     *)
(*                                                                         *)
(* Python values.  A dict is a function whose domain is the set of keys    *)
(* that are present.  A str whose content the code measures, slices or     *)
(* concatenates is a sequence of one-character strings; a str the code     *)
(* only copies or compares with literals (a dict key, a "type" value) is   *)
(* a TLA+ string.  A fixed literal that no operation looks into is kept    *)
(* as one element of such a sequence.  The source's non-ASCII literals     *)
(* are written in ASCII.                                                   *)
(***************************************************************************)
EXTENDS Integers, Sequences, FiniteSets, TLC

VARIABLES
    raw_event,          \* the update handed to TelegramConverter.convert
    onebot_event,       \* what convert returned for it
    pc,                 \* where the converter's run stands
    _at_user_ids,       \* Send._at_user_ids
    _reply_message_id,  \* Send._reply_message_id
    _at_all,            \* Send._at_all
    invoked,            \* the send method called last on the Send object
    api_call,           \* the call it handed to adapter.call_api
    send_pc,            \* where the chain on the Send object stands
    session,            \* TelegramAdapter.session
    poll_task,          \* TelegramAdapter.poll_task
    tasks,              \* the poll tasks start() created, each running or cancelled
    api_request,        \* the arguments of the last call of call_api by a sender
    response_data,      \* what that call returned
    poll_offset,        \* offset of _poll_updates
    server,             \* the updates the Bot API holds for getUpdates
    response,           \* response of _poll_updates
    updates,            \* the updates of the response still to be handled
    emitted,            \* the events handed to sdk.adapter.emit, in order
    delivered,          \* the updates that successful responses carried, in order
    poll_pc             \* where _poll_updates stands

convertVars == <<raw_event, onebot_event, pc>>
modifiers == <<_at_user_ids, _reply_message_id, _at_all>>
sendVars == <<_at_user_ids, _reply_message_id, _at_all, invoked, api_call, send_pc>>
lifecycleVars == <<session, poll_task, tasks>>
callVars == <<api_request, response_data>>
pollVars == <<poll_offset, server, response, updates, emitted, delivered, poll_pc>>
adapterVars == <<lifecycleVars, callVars, pollVars>>
vars == <<raw_event, onebot_event, pc,
          _at_user_ids, _reply_message_id, _at_all, invoked, api_call, send_pc,
          session, poll_task, tasks, api_request, response_data,
          poll_offset, server, response, updates, emitted, delivered, poll_pc>>

----------------------------------------------------------------------------
(* Bounds of the model *)

\* entities carried by one message
MaxEntities == 2
\* top-level keys of an update besides update_id
MaxKeys == 2
\* the clock read by int(time.time()) takes the values 0..MaxTime
MaxTime == 1
\* segments in one message handed to Raw_ob12
MaxSegs == 3
\* At() calls in one chain
MaxAt == 2
\* translations of one message on one Send object
MaxTranslations == 2
\* updates that reach the Bot API while the loop polls
MaxUpdates == 3
\* calls of start() that create a poll task
MaxStarts == 2

----------------------------------------------------------------------------
(* Python built-ins *)

EmptyDict == [k \in {} |-> k]

\* None, where a str or a number may stand
None == <<"None">>

\* key in d
Has(d, k) == k \in DOMAIN d

\* d.get(k, default)
Get(d, k, default) == IF k \in DOMAIN d THEN d[k] ELSE default

\* d[k] = v on a dict
Put(d, k, v) == [x \in DOMAIN d \cup {k} |-> IF x = k THEN v ELSE d[x]]

DigitChars == <<"0", "1", "2", "3", "4", "5", "6", "7", "8", "9">>

RECURSIVE NatStr(_)
NatStr(n) ==
    IF n < 10 THEN <<DigitChars[n + 1]>>
    ELSE NatStr(n \div 10) \o <<DigitChars[(n % 10) + 1]>>

\* str(n) of an int
str(n) == IF n < 0 THEN <<"-">> \o NatStr(-n) ELSE NatStr(n)

\* str(d.get(k, "")) where d[k], when present, is an int
StrOfGet(d, k) == IF k \in DOMAIN d THEN str(d[k]) ELSE <<>>

IsSpace(c) == c = " "

RECURSIVE lstrip(_)
lstrip(s) == IF s # <<>> /\ IsSpace(Head(s)) THEN lstrip(Tail(s)) ELSE s

RECURSIVE rstrip(_)
rstrip(s) ==
    IF s # <<>> /\ IsSpace(s[Len(s)]) THEN rstrip(SubSeq(s, 1, Len(s) - 1)) ELSE s

\* s.strip()
strip(s) == rstrip(lstrip(s))

\* an index of a slice, clamped as Python clamps it
SliceIndex(i, n) ==
    IF i < 0 THEN (IF i + n < 0 THEN 0 ELSE i + n) ELSE (IF i > n THEN n ELSE i)

\* s[a:b]
Slice(s, a, b) == SubSeq(s, SliceIndex(a, Len(s)) + 1, SliceIndex(b, Len(s)))

\* sep.join(parts)
RECURSIVE join(_, _)
join(sep, parts) ==
    IF parts = <<>> THEN <<>>
    ELSE IF Len(parts) = 1 THEN parts[1]
    ELSE parts[1] \o sep \o join(sep, Tail(parts))

----------------------------------------------------------------------------
(* TelegramConverter *)

\* self.token
Token == <<"T", "O", "K">>

\* self._event_type_map, in its declaration order
_event_type_map == <<
    <<"message", "message">>,
    <<"edited_message", "message">>,
    <<"channel_post", "message">>,
    <<"edited_channel_post", "message">>,
    <<"inline_query", "request">>,
    <<"chosen_inline_result", "notice">>,
    <<"callback_query", "notice">>,
    <<"shipping_query", "request">>,
    <<"pre_checkout_query", "request">>,
    <<"poll", "notice">>,
    <<"poll_answer", "notice">>,
    <<"my_chat_member", "notice">>,
    <<"chat_member", "notice">>,
    <<"chat_join_request", "request">> >>

RecognizedKeys == {_event_type_map[i][1] : i \in 1..Len(_event_type_map)}

\* An update is [order |-> its keys in the dict's iteration order,
\*               fields |-> the dict].
KeyIn(raw, k) == k \in DOMAIN raw.fields

\* isinstance(raw_event, dict): the one input that is not a dict is NotADict
NotADict == [order |-> <<>>, fields |-> EmptyDict, list |-> TRUE]
isinstance_dict(raw) == ~Has(raw, "list")

\* the loop of _detect_event_type from entry i of the table on
RECURSIVE DetectFrom(_, _)
DetectFrom(raw, i) ==
    IF i > Len(_event_type_map) THEN <<"None", "unknown">>
    ELSE IF KeyIn(raw, _event_type_map[i][1])
         THEN <<_event_type_map[i][2], _event_type_map[i][1]>>
         ELSE DetectFrom(raw, i + 1)

\* a detection that follows the update's own key order
RECURSIVE DetectByInputOrder(_, _)
DetectByInputOrder(raw, i) ==
    IF i > Len(raw.order) THEN <<"None", "unknown">>
    ELSE IF raw.order[i] \in RecognizedKeys
         THEN LET j == CHOOSE j \in 1..Len(_event_type_map) :
                           _event_type_map[j][1] = raw.order[i]
              IN  <<_event_type_map[j][2], _event_type_map[j][1]>>
         ELSE DetectByInputOrder(raw, i + 1)

_detect_event_type_input_order(raw) == DetectByInputOrder(raw, 1)

\* (ob_type, tg_type); ob_type "None" stands for None
_detect_event_type(raw) == DetectFrom(raw, 1)

_create_base_event_payload_only(raw, update_id, event_type, raw_type, now) ==
    [id |-> str(update_id),
     time |-> now,
     type |-> event_type,
     detail_type |-> "",
     platform |-> "telegram",
     self |-> [platform |-> "telegram", user_id |-> <<>>],
     telegram_raw |-> raw.fields[raw_type],
     telegram_raw_type |-> raw_type]

_create_base_event(raw, update_id, event_type, raw_type, now) ==
    [id |-> str(update_id),
     time |-> now,
     type |-> event_type,
     detail_type |-> "",
     platform |-> "telegram",
     self |-> [platform |-> "telegram", user_id |-> <<>>],
     telegram_raw |-> raw,
     telegram_raw_type |-> raw_type]

\* the first key of the update that is not update_id, else "unknown"
RECURSIVE FirstOtherKey(_, _)
FirstOtherKey(order, i) ==
    IF i > Len(order) THEN "unknown"
    ELSE IF order[i] # "update_id" THEN order[i]
    ELSE FirstOtherKey(order, i + 1)

\* convert's result when it returns None
NoneEvent == [none |-> TRUE]

_create_unknown_event_dropped(raw, update_id, now) == NoneEvent

_create_unknown_event(raw, update_id, now) ==
    LET unknown_type == FirstOtherKey(raw.order, 1)
    IN  [id |-> str(update_id),
         time |-> now,
         type |-> "unknown",
         platform |-> "telegram",
         self |-> [platform |-> "telegram", user_id |-> <<>>],
         telegram_raw |-> raw,
         telegram_raw_type |-> unknown_type,
         warning |-> <<"Unsupported event type: ", unknown_type>>,
         alt_message |-> "This event type is not supported by this system."]

\* convert's outcome when an exception leaves it
Raised == [raised |-> TRUE]

_get_user_name_names_first(user) ==
    LET username == Get(user, "username", <<>>)
        first_name == Get(user, "first_name", <<>>)
        last_name == Get(user, "last_name", <<>>)
        full_name == strip(first_name \o <<" ">> \o last_name)
    IN  IF full_name # <<>> THEN full_name
        ELSE IF username # <<>> THEN username
        ELSE StrOfGet(user, "id")

_get_user_name(user) ==
    LET username == Get(user, "username", <<>>)
        first_name == Get(user, "first_name", <<>>)
        last_name == Get(user, "last_name", <<>>)
        full_name == strip(first_name \o <<" ">> \o last_name)
    IN  IF username # <<>> THEN username
        ELSE IF full_name # <<>> THEN full_name
        ELSE StrOfGet(user, "id")

_build_file_url(file_path) ==
    IF file_path = None \/ file_path = <<>> THEN None
    ELSE <<"https://api.telegram.org/file/bot">> \o Token \o <<"/">> \o file_path

\* the keys of a message that hold one media object, in the order parsed
MediaKeys == <<"video", "voice", "audio", "document", "sticker">>

\* the segment built from the media object under key k
MediaSegment(k, obj) ==
    LET url == _build_file_url(Get(obj, "file_path", None))
    IN  CASE k = "photo" ->
               [type |-> "image",
                data |-> [file_id |-> obj.file_id, url |-> url, telegram_file |-> obj]]
          [] k = "video" ->
               [type |-> "video",
                data |-> [file_id |-> obj.file_id, url |-> url,
                          duration |-> Get(obj, "duration", 0),
                          width |-> Get(obj, "width", 0),
                          height |-> Get(obj, "height", 0)]]
          [] k = "voice" ->
               [type |-> "voice",
                data |-> [file_id |-> obj.file_id, url |-> url,
                          duration |-> Get(obj, "duration", 0)]]
          [] k = "audio" ->
               [type |-> "audio",
                data |-> [file_id |-> obj.file_id, url |-> url,
                          duration |-> Get(obj, "duration", 0),
                          title |-> Get(obj, "title", <<>>),
                          performer |-> Get(obj, "performer", <<>>)]]
          [] k = "document" ->
               [type |-> "file",
                data |-> [file_id |-> obj.file_id, url |-> url,
                          file_name |-> Get(obj, "file_name", <<>>),
                          file_size |-> Get(obj, "file_size", 0),
                          mime_type |-> Get(obj, "mime_type", <<>>)]]
          [] k = "sticker" ->
               [type |-> "image",
                data |-> [file_id |-> obj.file_id, url |-> url,
                          telegram_type |-> "sticker", telegram_file |-> obj]]

\* the segments of the media keys from entry i of MediaKeys on
RECURSIVE MediaSegmentsFrom(_, _)
MediaSegmentsFrom(message, i) ==
    IF i > Len(MediaKeys) THEN <<>>
    ELSE (IF Has(message, MediaKeys[i])
          THEN <<MediaSegment(MediaKeys[i], message[MediaKeys[i]])>>
          ELSE <<>>)
         \o MediaSegmentsFrom(message, i + 1)

\* the "at" segments of the entities from entry i on
RECURSIVE MentionSegmentsFrom(_, _, _)
MentionSegmentsFrom(entities, text, i) ==
    IF i > Len(entities) THEN <<>>
    ELSE LET entity == entities[i]
             seg == IF entity.type = "mention"
                    THEN IF entity.offset + entity.length <= Len(text)
                         THEN <<[type |-> "at",
                                 data |-> [name |-> Slice(text, entity.offset,
                                                          entity.offset + entity.length)]]>>
                         ELSE <<>>
                    ELSE IF entity.type = "text_mention"
                    THEN LET user == Get(entity, "user", EmptyDict)
                         IN  <<[type |-> "at",
                                data |-> [user_id |-> StrOfGet(user, "id"),
                                          name |-> _get_user_name(user)]]>>
                    ELSE <<>>
         IN  seg \o MentionSegmentsFrom(entities, text, i + 1)

\* the "at" segments when the span of a handle entity is not checked
RECURSIVE MentionSegmentsUnchecked(_, _, _)
MentionSegmentsUnchecked(entities, text, i) ==
    IF i > Len(entities) THEN <<>>
    ELSE LET entity == entities[i]
             seg == IF entity.type = "mention"
                    THEN <<[type |-> "at",
                            data |-> [name |-> Slice(text, entity.offset,
                                                     entity.offset + entity.length)]]>>
                    ELSE IF entity.type = "text_mention"
                    THEN LET user == Get(entity, "user", EmptyDict)
                         IN  <<[type |-> "at",
                                data |-> [user_id |-> StrOfGet(user, "id"),
                                          name |-> _get_user_name(user)]]>>
                    ELSE <<>>
         IN  seg \o MentionSegmentsUnchecked(entities, text, i + 1)

_parse_mentions_unchecked(message, segments) ==
    segments \o MentionSegmentsUnchecked(Get(message, "entities", <<>>),
                                         Get(message, "text", <<>>), 1)

\* segments after _parse_mentions(message, segments) has appended to them
_parse_mentions(message, segments) ==
    segments \o MentionSegmentsFrom(Get(message, "entities", <<>>),
                                    Get(message, "text", <<>>), 1)

\* KeyError of entity["type"], entity["offset"], entity["length"]
_parse_mentions_raises(message) ==
    LET entities == Get(message, "entities", <<>>)
    IN  \E i \in 1..Len(entities) :
            \/ ~Has(entities[i], "type")
            \/ /\ entities[i].type = "mention"
               /\ (~Has(entities[i], "offset") \/ ~Has(entities[i], "length"))

\* IndexError of message["photo"][-1]; KeyError of x["file_id"] and of
\* reply_msg["message_id"]; what _parse_mentions raises
_parse_message_content_raises(message) ==
    \/ /\ Has(message, "photo")
       /\ \/ message.photo = <<>>
          \/ ~Has(message.photo[Len(message.photo)], "file_id")
    \/ \E i \in 1..Len(MediaKeys) :
           Has(message, MediaKeys[i]) /\ ~Has(message[MediaKeys[i]], "file_id")
    \/ Has(message, "reply_to_message") /\ ~Has(message.reply_to_message, "message_id")
    \/ _parse_mentions_raises(message)

InsertReplyLast(segments, reply) == Append(segments, reply)

\* segments.insert(0, reply)
InsertReply(segments, reply) == <<reply>> \o segments

\* the segment list, when no exception leaves the parser
_parse_message_content(message) ==
    LET t == Get(message, "text", <<>>)
        text == IF t # <<>> THEN t ELSE Get(message, "caption", <<>>)
        text_segs == IF text # <<>>
                     THEN <<[type |-> "text", data |-> [text |-> text]]>> ELSE <<>>
        photo_segs == IF Has(message, "photo")
                      THEN <<MediaSegment("photo", message.photo[Len(message.photo)])>>
                      ELSE <<>>
        content == text_segs \o photo_segs \o MediaSegmentsFrom(message, 1)
        with_reply ==
            IF Has(message, "reply_to_message")
            THEN LET reply_msg == message.reply_to_message
                 IN  InsertReply(content,
                        [type |-> "reply",
                         data |-> [message_id |-> str(reply_msg.message_id),
                                   user_id |-> StrOfGet(Get(reply_msg, "from", EmptyDict),
                                                        "id")]])
            ELSE content
    IN  _parse_mentions(message, with_reply)

\* the token of one segment in the alternative text; the source's tokens
\* are "[image]" for U+56FE U+7247 in brackets, and so on
AltToken(seg) ==
    LET data == seg.data
    IN  CASE seg.type = "text" -> <<Get(data, "text", <<>>)>>
          [] seg.type = "image" ->
               IF Get(data, "telegram_type", "") = "sticker"
               THEN << <<"[sticker]">> >> ELSE << <<"[image]">> >>
          [] seg.type = "video" -> << <<"[video]">> >>
          [] seg.type = "voice" -> << <<"[voice]">> >>
          [] seg.type = "audio" -> << <<"[audio]">> >>
          [] seg.type = "file" ->
               IF Get(data, "file_name", <<>>) # <<>>
               THEN << <<"[file:">> \o data.file_name \o <<"]">> >>
               ELSE << <<"[file]">> >>
          [] seg.type = "at" -> <<Get(data, "name", <<>>)>>
          [] seg.type = "reply" -> << <<"[reply]">> >>
          [] OTHER -> <<>>

RECURSIVE AltParts(_)
AltParts(segments) ==
    IF segments = <<>> THEN <<>>
    ELSE AltToken(Head(segments)) \o AltParts(Tail(segments))

_generate_alt_message(segments) == strip(join(<<" ">>, AltParts(segments)))

\* a choice of the message-bearing key that looks for the edited variants first
MessageKeyReadEditedFirst(raw) ==
    IF KeyIn(raw, "edited_message") THEN "edited_message"
    ELSE IF KeyIn(raw, "edited_channel_post") THEN "edited_channel_post"
    ELSE IF KeyIn(raw, "message") THEN "message"
    ELSE IF KeyIn(raw, "channel_post") THEN "channel_post"
    ELSE ""

\* the message-bearing key that _handle_message reads, "" when there is none
MessageKeyRead(raw) ==
    IF KeyIn(raw, "message") THEN "message"
    ELSE IF KeyIn(raw, "edited_message") THEN "edited_message"
    ELSE IF KeyIn(raw, "channel_post") THEN "channel_post"
    ELSE IF KeyIn(raw, "edited_channel_post") THEN "edited_channel_post"
    ELSE ""

MessageDetailTypeOfGroupOnly(chat_type) ==
    IF chat_type = "private" THEN "user"
    ELSE IF chat_type = "group" THEN "group"
    ELSE IF chat_type = "channel" THEN "channel"
    ELSE chat_type

\* the detail_type of a message in a chat of the given type
MessageDetailType(chat_type) ==
    IF chat_type = "private" THEN "user"
    ELSE IF chat_type \in {"group", "supergroup"} THEN "group"
    ELSE IF chat_type = "channel" THEN "channel"
    ELSE chat_type

\* base_event with the keys of extra set, extra's values winning
Update(base_event, extra) == extra @@ base_event

_handle_message(raw, base_event, now) ==
    LET key == MessageKeyRead(raw)
        message == raw.fields[key]
        is_edited == key \in {"edited_message", "edited_channel_post"}
        chat == Get(message, "chat", EmptyDict)
        chat_type == Get(chat, "type", "")
        detail_type == MessageDetailType(chat_type)
        message_segments == _parse_message_content(message)
        e1 == Update(base_event,
                [detail_type |-> detail_type,
                 message_id |-> StrOfGet(message, "message_id"),
                 message |-> message_segments,
                 alt_message |-> _generate_alt_message(message_segments),
                 telegram_chat |-> chat])
        e2 == IF Has(message, "from")
              THEN Update(e1, [user_id |-> StrOfGet(message.from, "id"),
                               user_nickname |-> _get_user_name(message.from)])
              ELSE e1
        e3 == IF is_edited THEN Put(e2, "telegram_edit_time", now) ELSE e2
    IN  IF key = "" THEN base_event
        ELSE IF _parse_message_content_raises(message) THEN Raised
        ELSE IF detail_type = "group"
             THEN Put(e3, "group_id", StrOfGet(chat, "id"))
        ELSE IF detail_type = "channel"
             THEN Put(e3, "channel_id", StrOfGet(chat, "id"))
        ELSE e3

ChatIdFieldBoth(chat) ==
    [channel_id |-> StrOfGet(chat, "id"), group_id |-> StrOfGet(chat, "id")]

\* the group_id or channel_id that the notice and request handlers attach
ChatIdField(chat) ==
    IF Get(chat, "type", "") = "channel"
    THEN [channel_id |-> StrOfGet(chat, "id")]
    ELSE [group_id |-> StrOfGet(chat, "id")]

_handle_callback_query(raw, base_event) ==
    LET callback == raw.fields.callback_query
        from_user == Get(callback, "from", EmptyDict)
        e1 == Update(base_event,
                [detail_type |-> "telegram_callback_query",
                 user_id |-> StrOfGet(from_user, "id"),
                 user_nickname |-> _get_user_name(from_user),
                 telegram_callback_id |-> Get(callback, "id", <<>>),
                 telegram_callback_data |-> Get(callback, "data", None),
                 telegram_inline_message_id |-> Get(callback, "inline_message_id", None),
                 telegram_chat_instance |-> Get(callback, "chat_instance", <<>>)])
        msg == callback.message
        e2 == Put(e1, "message_id", StrOfGet(msg, "message_id"))
    IN  IF ~Has(callback, "message") THEN e1
        ELSE IF ~Has(msg, "chat") THEN e2
        ELSE Update(e2, ChatIdField(msg.chat))

_handle_poll(raw, base_event) ==
    LET poll == raw.fields.poll
    IN  Update(base_event,
          [detail_type |-> "telegram_poll",
           telegram_poll_id |-> Get(poll, "id", <<>>),
           telegram_poll_question |-> Get(poll, "question", <<>>),
           telegram_poll_options |-> Get(poll, "options", <<>>),
           telegram_poll_total_voter_count |-> Get(poll, "total_voter_count", 0),
           telegram_poll_is_closed |-> Get(poll, "is_closed", FALSE),
           telegram_poll_is_anonymous |-> Get(poll, "is_anonymous", TRUE),
           telegram_poll_type |-> Get(poll, "type", "regular"),
           telegram_poll_allows_multiple_answers |->
               Get(poll, "allows_multiple_answers", FALSE),
           telegram_poll_correct_option_id |-> Get(poll, "correct_option_id", None),
           telegram_poll_explanation |-> Get(poll, "explanation", None),
           telegram_poll_open_period |-> Get(poll, "open_period", None),
           telegram_poll_close_date |-> Get(poll, "close_date", None)])

_handle_poll_answer(raw, base_event) ==
    LET answer == raw.fields.poll_answer
        user == Get(answer, "user", EmptyDict)
    IN  Update(base_event,
          [detail_type |-> "telegram_poll_answer",
           user_id |-> StrOfGet(user, "id"),
           user_nickname |-> _get_user_name(user),
           telegram_poll_id |-> Get(answer, "poll_id", <<>>),
           telegram_poll_option_ids |-> Get(answer, "option_ids", <<>>),
           telegram_voter_chat |-> Get(answer, "voter_chat", None)])

_handle_chosen_inline_result(raw, base_event) ==
    LET result == raw.fields.chosen_inline_result
        user == Get(result, "from", EmptyDict)
    IN  Update(base_event,
          [detail_type |-> "telegram_chosen_inline_result",
           user_id |-> StrOfGet(user, "id"),
           user_nickname |-> _get_user_name(user),
           telegram_result_id |-> Get(result, "result_id", <<>>),
           telegram_query |-> Get(result, "query", <<>>),
           telegram_inline_message_id |-> Get(result, "inline_message_id", None)])

_handle_chat_member(raw, base_event) ==
    LET key == IF KeyIn(raw, "my_chat_member") THEN "my_chat_member" ELSE "chat_member"
        member_update == raw.fields[key]
        from_user == Get(member_update, "from", EmptyDict)
        chat == Get(member_update, "chat", EmptyDict)
    IN  Update(base_event,
          [detail_type |-> IF key = "my_chat_member" THEN "telegram_my_chat_member"
                           ELSE "telegram_chat_member",
           user_id |-> StrOfGet(from_user, "id"),
           user_nickname |-> _get_user_name(from_user),
           telegram_old_member |-> Get(member_update, "old_chat_member", EmptyDict),
           telegram_new_member |-> Get(member_update, "new_chat_member", EmptyDict),
           telegram_chat |-> chat]
          @@ ChatIdField(chat))

_handle_notice(raw, base_event) ==
    LET raw_type == base_event.telegram_raw_type
    IN  IF raw_type = "callback_query" THEN _handle_callback_query(raw, base_event)
        ELSE IF raw_type = "poll" THEN _handle_poll(raw, base_event)
        ELSE IF raw_type = "poll_answer" THEN _handle_poll_answer(raw, base_event)
        ELSE IF raw_type = "chosen_inline_result"
             THEN _handle_chosen_inline_result(raw, base_event)
        ELSE IF raw_type \in {"my_chat_member", "chat_member"}
             THEN _handle_chat_member(raw, base_event)
        ELSE base_event

\* an inline query handler that copies only the fields the payload holds
_handle_inline_query_sparse(raw, base_event) ==
    LET query == raw.fields.inline_query
        user == Get(query, "from", EmptyDict)
        e1 == Update(base_event,
                [detail_type |-> "telegram_inline_query",
                 user_id |-> StrOfGet(user, "id"),
                 user_nickname |-> _get_user_name(user),
                 telegram_query_id |-> Get(query, "id", <<>>),
                 telegram_query_offset |-> Get(query, "offset", <<>>),
                 telegram_query_chat_type |-> Get(query, "chat_type", None)])
    IN  IF Has(query, "query")
        THEN Put(e1, "telegram_query_text", query.query) ELSE e1

_handle_inline_query(raw, base_event) ==
    LET query == raw.fields.inline_query
        user == Get(query, "from", EmptyDict)
    IN  Update(base_event,
          [detail_type |-> "telegram_inline_query",
           user_id |-> StrOfGet(user, "id"),
           user_nickname |-> _get_user_name(user),
           telegram_query_id |-> Get(query, "id", <<>>),
           telegram_query_text |-> Get(query, "query", <<>>),
           telegram_query_offset |-> Get(query, "offset", <<>>),
           telegram_query_chat_type |-> Get(query, "chat_type", None)])

_handle_shipping_query(raw, base_event) ==
    LET shipping == raw.fields.shipping_query
        user == Get(shipping, "from", EmptyDict)
    IN  Update(base_event,
          [detail_type |-> "telegram_shipping_query",
           user_id |-> StrOfGet(user, "id"),
           user_nickname |-> _get_user_name(user),
           telegram_shipping_query_id |-> Get(shipping, "id", <<>>),
           telegram_invoice_payload |-> Get(shipping, "invoice_payload", <<>>),
           telegram_shipping_address |-> Get(shipping, "shipping_address", None)])

_handle_pre_checkout_query(raw, base_event) ==
    LET checkout == raw.fields.pre_checkout_query
        user == Get(checkout, "from", EmptyDict)
    IN  Update(base_event,
          [detail_type |-> "telegram_pre_checkout_query",
           user_id |-> StrOfGet(user, "id"),
           user_nickname |-> _get_user_name(user),
           telegram_checkout_id |-> Get(checkout, "id", <<>>),
           telegram_invoice_payload |-> Get(checkout, "invoice_payload", <<>>),
           telegram_currency |-> Get(checkout, "currency", <<>>),
           telegram_total_amount |-> Get(checkout, "total_amount", 0),
           telegram_shipping_option_id |-> Get(checkout, "shipping_option_id", None),
           telegram_order_info |-> Get(checkout, "order_info", None)])

_handle_chat_join_request(raw, base_event) ==
    LET request == raw.fields.chat_join_request
        user == Get(request, "from", EmptyDict)
        chat == Get(request, "chat", EmptyDict)
    IN  Update(base_event,
          [detail_type |-> "telegram_chat_join_request",
           user_id |-> StrOfGet(user, "id"),
           user_nickname |-> _get_user_name(user),
           comment |-> Get(Get(request, "invite_link", EmptyDict), "name", <<>>),
           telegram_chat_join_request_id |-> Get(request, "chat_join_request_id", <<>>),
           telegram_date |-> Get(request, "date", 0),
           telegram_user_chat_id |-> Get(request, "user_chat_id", None),
           telegram_chat |-> chat]
          @@ ChatIdField(chat))

_handle_request(raw, base_event) ==
    LET raw_type == base_event.telegram_raw_type
    IN  IF raw_type = "inline_query" THEN _handle_inline_query(raw, base_event)
        ELSE IF raw_type = "shipping_query" THEN _handle_shipping_query(raw, base_event)
        ELSE IF raw_type = "pre_checkout_query"
             THEN _handle_pre_checkout_query(raw, base_event)
        ELSE IF raw_type = "chat_join_request"
             THEN _handle_chat_join_request(raw, base_event)
        ELSE base_event

\* convert(raw_event) at clock value now: an event, NoneEvent or Raised
convert(raw, now) ==
    IF ~isinstance_dict(raw) THEN NoneEvent
    ELSE IF ~KeyIn(raw, "update_id") THEN NoneEvent
    ELSE LET update_id == raw.fields.update_id
             detected == _detect_event_type(raw)
             event_type == detected[1]
             raw_type == detected[2]
             base == _create_base_event(raw, update_id, event_type, raw_type, now)
         IN  IF event_type = "None" THEN _create_unknown_event(raw, update_id, now)
             ELSE IF event_type = "message" THEN _handle_message(raw, base, now)
             ELSE IF event_type = "notice" THEN _handle_notice(raw, base)
             ELSE _handle_request(raw, base)

----------------------------------------------------------------------------
(* The updates the converter is run on *)

\* the dicts of D, and each of them with key k set to a value of V
WithOpt(D, k, V) == D \cup {Put(d, k, v) : d \in D, v \in V}

\* each dict of D with key k set to a value of V
With(D, k, V) == {Put(d, k, v) : d \in D, v \in V}

\* sequences over S of length at most n
RECURSIVE SeqsUpTo(_, _)
SeqsUpTo(S, n) ==
    IF n = 0 THEN {<<>>}
    ELSE LET shorter == SeqsUpTo(S, n - 1)
         IN  shorter \cup {Append(q, x) : q \in shorter, x \in S}

Times == 0..MaxTime

Users ==
    WithOpt(WithOpt(WithOpt(WithOpt({EmptyDict},
        "username", {<<>>, <<"a", "l">>}),
        "first_name", {<<>>, <<" ">>, <<"A">>, <<" ", "A">>}),
        "last_name", {<<>>, <<"B">>, <<"B", " ">>}),
        "id", {5})

Chats ==
    WithOpt(WithOpt({EmptyDict},
        "type", {"private", "group", "supergroup", "channel", "sender"}),
        "id", {-100})

\* "@bo hi": a handle at [0, 3)
MentionText == <<"@", "b", "o", " ", "h", "i">>

TextAndCaption ==
    {EmptyDict,
     [text |-> MentionText],
     [text |-> <<>>, caption |-> <<"c">>],
     [caption |-> <<"c">>]}

PhotoLists ==
    {<<>>,
     << [file_path |-> <<"p", "0">>] >>,
     << [file_id |-> <<"F", "1">>, file_path |-> <<"p", "1">>] >>,
     << [file_id |-> <<"F", "2">>], [file_id |-> <<"F", "1">>, file_path |-> <<"p", "1">>] >>,
     << [file_id |-> <<"F", "1">>, file_path |-> <<"p", "1">>], [file_path |-> <<"p", "0">>] >>}

MediaObjects ==
    {[duration |-> 3], [file_id |-> <<"F", "3">>, file_path |-> <<"p", "3">>]}

\* at most one of the keys of MediaKeys
OneMedia(D) ==
    D \cup UNION {With(D, MediaKeys[i], MediaObjects) : i \in 1..Len(MediaKeys)}

ReplyTargets ==
    {EmptyDict, [message_id |-> 3], [message_id |-> 3, from |-> [id |-> 5]]}

EntityObjects ==
    {[type |-> "mention", offset |-> 0, length |-> 3],
     [type |-> "mention", offset |-> 4, length |-> 3],
     [type |-> "mention", length |-> 3],
     [type |-> "text_mention", offset |-> 4, length |-> 2,
      user |-> [id |-> 9, first_name |-> <<"Z">>]],
     [type |-> "text_mention", offset |-> 4, length |-> 2],
     [type |-> "bold", offset |-> 0, length |-> 1],
     [offset |-> 0, length |-> 1]}

FewEntityLists ==
    {<< [type |-> "mention", offset |-> 0, length |-> 3] >>,
     << [type |-> "text_mention", offset |-> 4, length |-> 2,
         user |-> [id |-> 9, first_name |-> <<"Z">>]] >>}

\* messages that vary the media, with few entities
MediaMessages ==
    WithOpt(WithOpt(OneMedia(WithOpt(TextAndCaption,
        "photo", PhotoLists)),
        "reply_to_message", ReplyTargets),
        "entities", FewEntityLists)

\* messages that vary the entities, with little media
EntityMessages ==
    WithOpt(WithOpt(WithOpt(TextAndCaption,
        "video", {[file_id |-> <<"F", "3">>]}),
        "reply_to_message", ReplyTargets),
        "entities", SeqsUpTo(EntityObjects, MaxEntities))

\* messages that vary the chat and the sender
SenderMessages ==
    WithOpt(WithOpt({[message_id |-> 7, text |-> <<"h", "i">>]},
        "chat", Chats),
        "from", Users)

\* the update {update_id: 42, key: payload}
Single(key, payload) ==
    [order |-> <<"update_id", key>>,
     fields |-> Put([update_id |-> 42], key, payload)]

MessageBearingKeys == {"message", "edited_message", "channel_post", "edited_channel_post"}

ContentUpdates ==
    {Single("message", m) : m \in MediaMessages \cup EntityMessages \cup SenderMessages}
    \cup {Single(k, m) : k \in MessageBearingKeys,
                         m \in WithOpt({[message_id |-> 7, from |-> [id |-> 5]]},
                                       "chat", Chats)}

\* a payload under a top-level key, told apart by the key it stands under
DefaultPayload(k) ==
    LET user == [id |-> 5, username |-> <<"a", "l">>]
        group == [id |-> -100, type |-> "group"]
        channel == [id |-> -200, type |-> "channel"]
    IN  CASE k = "message" ->
               [message_id |-> 1, chat |-> group, from |-> user, text |-> <<"m">>]
          [] k = "edited_message" ->
               [message_id |-> 2, chat |-> group, from |-> user, text |-> <<"e">>]
          [] k = "channel_post" ->
               [message_id |-> 3, chat |-> channel, text |-> <<"c">>]
          [] k = "edited_channel_post" ->
               [message_id |-> 4, chat |-> channel, text |-> <<"d">>]
          [] k = "inline_query" ->
               [id |-> <<"i", "q">>, from |-> user, query |-> <<"q">>, offset |-> <<>>]
          [] k = "chosen_inline_result" ->
               [result_id |-> <<"r">>, from |-> user, query |-> <<"q">>]
          [] k = "callback_query" ->
               [id |-> <<"c", "b">>, from |-> user, data |-> <<"d">>,
                message |-> [message_id |-> 9, chat |-> channel]]
          [] k = "shipping_query" ->
               [id |-> <<"s", "q">>, from |-> user, invoice_payload |-> <<"p">>]
          [] k = "pre_checkout_query" ->
               [id |-> <<"p", "c">>, from |-> user, currency |-> <<"E">>,
                total_amount |-> 10]
          [] k = "poll" ->
               [id |-> <<"p", "o">>, question |-> <<"?">>, is_closed |-> TRUE]
          [] k = "poll_answer" ->
               [poll_id |-> <<"p", "o">>, user |-> user, option_ids |-> <<0>>]
          [] k = "my_chat_member" ->
               [from |-> user, chat |-> group,
                new_chat_member |-> [status |-> "member"]]
          [] k = "chat_member" ->
               [from |-> [id |-> 6], chat |-> channel,
                new_chat_member |-> [status |-> "left"]]
          [] k = "chat_join_request" ->
               [from |-> user, chat |-> group, date |-> 1,
                invite_link |-> [name |-> <<"l">>]]
          [] OTHER -> EmptyDict

TopLevelKeys == RecognizedKeys \cup {"some_future_field", "other_field"}

\* sequences of distinct top-level keys, at most n of them
RECURSIVE KeyOrders(_)
KeyOrders(n) ==
    IF n = 0 THEN {<<>>}
    ELSE LET shorter == KeyOrders(n - 1)
         IN  shorter \cup
             UNION {{Append(q, k) :
                        k \in {x \in TopLevelKeys : \A i \in 1..Len(q) : q[i] # x}} :
                    q \in shorter}

UpdateIds == {0, 42}

\* the dict with the keys of order; full: default payloads, else empty ones
KeyedFields(order, full) ==
    [k \in {order[i] : i \in 1..Len(order)} |->
        IF full THEN DefaultPayload(k) ELSE EmptyDict]

KeyUpdates ==
    {[order |-> q, fields |-> KeyedFields(q, full)] :
        q \in KeyOrders(MaxKeys), full \in BOOLEAN}
    \cup {[order |-> <<"update_id">> \o q,
           fields |-> Put(KeyedFields(q, full), "update_id", id)] :
            q \in KeyOrders(MaxKeys), full \in BOOLEAN, id \in UpdateIds}
    \cup {[order |-> q \o <<"update_id">>,
           fields |-> Put(KeyedFields(q, full), "update_id", id)] :
            q \in KeyOrders(MaxKeys), full \in BOOLEAN, id \in UpdateIds}

\* the dicts holding some of the keys of d, with d's values
Restrictions(d) == {[k \in S |-> d[k]] : S \in SUBSET DOMAIN d}

NoticeKeys ==
    {"callback_query", "poll", "poll_answer", "chosen_inline_result",
     "my_chat_member", "chat_member"}

RequestKeys ==
    {"inline_query", "shipping_query", "pre_checkout_query", "chat_join_request"}

\* payloads of a notice or request with other chats than the default one's
ChatPayloads(k) ==
    LET group == [id |-> -100, type |-> "group"]
        channel == [id |-> -200, type |-> "channel"]
    IN  CASE k = "callback_query" ->
               {[id |-> <<"c", "b">>, message |-> m] :
                   m \in {[message_id |-> 9], [message_id |-> 9, chat |-> group],
                          [chat |-> [id |-> -200]], EmptyDict}}
          [] k \in {"my_chat_member", "chat_member", "chat_join_request"} ->
               {[chat |-> c] : c \in {group, channel, [id |-> -100], [type |-> "channel"]}}
          [] OTHER -> {}

\* notices and requests by the optional fields their payload holds
SubtypeUpdates ==
    UNION {{Single(k, payload) :
               payload \in Restrictions(DefaultPayload(k)) \cup ChatPayloads(k)} :
           k \in NoticeKeys \cup RequestKeys}

Updates == ContentUpdates \cup KeyUpdates \cup SubtypeUpdates \cup {NotADict}

----------------------------------------------------------------------------
(* TelegramAdapter.Send: Python values of a reply target *)

\* A message id handed to Reply() or found in a reply segment is None, an
\* int or a str.
PyNone == [ty |-> "none"]
PyInt(n) == [ty |-> "int", int |-> n]
PyStr(t) == [ty |-> "str", str |-> t]

\* bool(x)
Truthy(x) ==
    CASE x.ty = "none" -> FALSE
      [] x.ty = "int" -> x.int # 0
      [] x.ty = "str" -> x.str # <<>>

\* a or b
PyOr(a, b) == IF Truthy(a) THEN a ELSE b

IsDecimal(c) == \E d \in 1..10 : DigitChars[d] = c

\* a character for which str.isdigit() holds and which int() rejects
\* (such as a superscript digit)
OtherDigitChars == {"^2"}

\* s.isdigit()
isdigit(s) ==
    s # <<>> /\ \A i \in 1..Len(s) : IsDecimal(s[i]) \/ s[i] \in OtherDigitChars

DigitValue(c) == (CHOOSE d \in 1..10 : DigitChars[d] = c) - 1

RECURSIVE DigitsValue(_)
DigitsValue(s) ==
    IF s = <<>> THEN 0
    ELSE DigitsValue(SubSeq(s, 1, Len(s) - 1)) * 10 + DigitValue(s[Len(s)])

\* int(s) of a str: [ok |-> no ValueError, value |-> the int]
IntLiteral(s) ==
    LET t == strip(s)
        signed == t # <<>> /\ t[1] \in {"+", "-"}
        body == IF signed THEN Tail(t) ELSE t
        wellformed ==
            /\ body # <<>>
            /\ \A i \in 1..Len(body) : IsDecimal(body[i]) \/ body[i] = "_"
            /\ IsDecimal(body[1]) /\ IsDecimal(body[Len(body)])
            /\ \A i \in 1..(Len(body) - 1) : ~(body[i] = "_" /\ body[i + 1] = "_")
        magnitude == DigitsValue(SelectSeq(body, IsDecimal))
    IN  [ok |-> wellformed,
         value |-> IF ~wellformed THEN 0
                   ELSE IF signed /\ t[1] = "-" THEN -magnitude ELSE magnitude]

\* int(x) raises neither ValueError nor TypeError
CanInt(x) ==
    CASE x.ty = "none" -> FALSE
      [] x.ty = "int" -> TRUE
      [] x.ty = "str" -> IntLiteral(x.str).ok

\* int(x), when it does not raise
IntOf(x) == IF x.ty = "int" THEN x.int ELSE IntLiteral(x.str).value

----------------------------------------------------------------------------
(* TelegramAdapter.Send: the translation of OneBot12 segments *)

\* self._target_id
TargetId == "G1"

MediaTypes == {"image", "video", "voice", "file", "audio"}

\* media_segment before a media segment was met
NoMedia == [none |-> TRUE]

CaptureLastMedia(media_segment, seg_type, data) == [type |-> seg_type, data |-> data]

\* if not media_segment: media_segment = {"type": seg_type, "data": data}
CaptureMedia(media_segment, seg_type, data) ==
    IF media_segment = NoMedia THEN [type |-> seg_type, data |-> data]
    ELSE media_segment

\* the entity of a mention of user_id whose token starts at start_pos
MentionEntity(user_id, start_pos, length) ==
    IF isdigit(user_id)
    THEN [type |-> "text_mention", offset |-> start_pos, length |-> length,
          user |-> [id |-> IntLiteral(user_id).value]]
    ELSE [type |-> "mention", offset |-> start_pos, length |-> length]

\* int(user_id) raises ValueError although str(user_id).isdigit()
MentionRaises(user_id) == isdigit(user_id) /\ ~IntLiteral(user_id).ok

\* one turn of the first loop
ScanSegment(acc, segment) ==
    LET seg_type == Get(segment, "type", "None")
        data == Get(segment, "data", EmptyDict)
    IN  CASE seg_type = "text" ->
               [acc EXCEPT !.text_parts = Append(@, Get(data, "text", <<>>))]
          [] seg_type \in MediaTypes ->
               [acc EXCEPT !.media_segment = CaptureMedia(@, seg_type, data)]
          [] seg_type \in {"at", "mention"} ->
               LET user_id == Get(data, "user_id", <<>>)
                   mention_text == Get(data, "name", <<"@">> \o user_id)
                   start_pos == Len(join(<<>>, acc.text_parts))
               IN  [acc EXCEPT
                      !.text_parts = Append(@, mention_text),
                      !.entities = Append(@, MentionEntity(user_id, start_pos,
                                                           Len(mention_text))),
                      !.raised = @ \/ MentionRaises(user_id)]
          [] seg_type = "reply" ->
               LET msg_id == Get(data, "message_id", PyNone)
               IN  IF Truthy(msg_id) /\ CanInt(msg_id)
                   THEN [acc EXCEPT !.reply_message_id = PyInt(IntOf(msg_id))]
                   ELSE acc
          [] OTHER -> acc

RECURSIVE ScanSegments(_, _)
ScanSegments(acc, message_segments) ==
    IF message_segments = <<>> THEN acc
    ELSE ScanSegments(ScanSegment(acc, Head(message_segments)), Tail(message_segments))

\* the second loop: the users set with At()
RECURSIVE AppendAtUsers(_, _)
AppendAtUsers(acc, at_user_ids) ==
    IF at_user_ids = <<>> THEN acc
    ELSE LET user_id == Head(at_user_ids)
             mention_text == <<"@">> \o user_id
             start_pos == Len(join(<<>>, acc.text_parts))
         IN  AppendAtUsers(
                [acc EXCEPT
                   !.text_parts = Append(@, <<" ">> \o mention_text),
                   !.entities = Append(@, MentionEntity(user_id, start_pos,
                                                        Len(mention_text))),
                   !.raised = @ \/ MentionRaises(user_id)],
                Tail(at_user_ids))

\* (endpoint, field_name) of a media type
MediaEndpoint(seg_type) ==
    CASE seg_type = "image" -> <<"sendPhoto", "photo">>
      [] seg_type = "video" -> <<"sendVideo", "video">>
      [] seg_type = "voice" -> <<"sendVoice", "voice">>
      [] seg_type = "audio" -> <<"sendAudio", "audio">>
      [] OTHER -> <<"sendDocument", "document">>

\* a str or None is true
TruthyText(t) == t # None /\ t # <<>>

MediaFileUrlFirst(data) ==
    IF TruthyText(Get(data, "url", None)) THEN data.url
    ELSE IF TruthyText(Get(data, "file_id", None)) THEN data.file_id
    ELSE Get(data, "file", <<>>)

\* data.get("file_id") or data.get("url") or data.get("file", "")
MediaFile(data) ==
    IF TruthyText(Get(data, "file_id", None)) THEN data.file_id
    ELSE IF TruthyText(Get(data, "url", None)) THEN data.url
    ELSE Get(data, "file", <<>>)

TextOrEmpty(full_text) == full_text

\* full_text or " "
TextOrSpace(full_text) == IF full_text # <<>> THEN full_text ELSE <<" ">>

\* params with reply_to_message_id set without the try around int()
WithReplyUnguarded(params, final_reply_id) ==
    IF Truthy(final_reply_id)
    THEN Put(params, "reply_to_message_id", IntOf(final_reply_id))
    ELSE params

\* params with reply_to_message_id set from final_reply_id, when it is true
\* and int() takes it
WithReply(params, final_reply_id) ==
    IF Truthy(final_reply_id) /\ CanInt(final_reply_id)
    THEN Put(params, "reply_to_message_id", IntOf(final_reply_id))
    ELSE params

\* the call of _convert_ob12_to_telegram(message_segments) on a Send object
\* with the given modifiers, or Raised
_convert_ob12_to_telegram(message_segments, at_user_ids, reply_message_id, at_all) ==
    LET scanned == ScanSegments([text_parts |-> <<>>, entities |-> <<>>,
                                 media_segment |-> NoMedia,
                                 reply_message_id |-> PyNone,
                                 raised |-> FALSE],
                                message_segments)
        final_reply_id == PyOr(scanned.reply_message_id, reply_message_id)
        params == WithReply([chat_id |-> TargetId], final_reply_id)
        final_at_all == FALSE \/ at_all
        acc == AppendAtUsers(scanned, at_user_ids)
        joined == join(<<>>, acc.text_parts)
        full_text == IF final_at_all THEN <<"@", "A", "l", "l", " ">> \o joined
                     ELSE joined
        media == acc.media_segment
    IN  IF acc.raised THEN Raised
        ELSE IF media # NoMedia
        THEN [endpoint |-> MediaEndpoint(media.type)[1],
              params |-> Put(Put(params, MediaEndpoint(media.type)[2],
                                 MediaFile(media.data)),
                             "caption",
                             IF full_text # <<>> THEN full_text
                             ELSE Get(media.data, "caption", <<>>))]
        ELSE [endpoint |-> "sendMessage",
              params |-> LET p == Put(params, "text", TextOrSpace(full_text))
                         IN  IF acc.entities # <<>>
                             THEN Put(p, "entities", acc.entities) ELSE p]

\* the first loop of Text(): the entities of the users set with At()
RECURSIVE TextEntities(_, _)
TextEntities(at_user_ids, offset) ==
    IF at_user_ids = <<>> THEN <<>>
    ELSE LET user_id == Head(at_user_ids)
             length == Len(<<"@">> \o user_id)
         IN  <<MentionEntity(user_id, offset, length)>>
             \o TextEntities(Tail(at_user_ids), offset + length + 1)

RECURSIVE AtTokens(_)
AtTokens(at_user_ids) ==
    IF at_user_ids = <<>> THEN <<>>
    ELSE << <<"@">> \o Head(at_user_ids) >> \o AtTokens(Tail(at_user_ids))

\* the call of Text(text), or Raised
Text_call(text, at_user_ids, reply_message_id, at_all) ==
    LET with_mentions == IF at_user_ids # <<>>
                         THEN join(<<" ">>, AtTokens(at_user_ids)) \o <<" ">> \o text
                         ELSE text
        entities == TextEntities(at_user_ids, 0)
        final_text == IF at_all THEN <<"@", "A", "l", "l", " ">> \o with_mentions
                      ELSE with_mentions
        p1 == [chat_id |-> TargetId, text |-> final_text]
        p2 == IF entities # <<>> THEN Put(p1, "entities", entities) ELSE p1
    IN  IF \E i \in 1..Len(at_user_ids) : MentionRaises(at_user_ids[i]) THEN Raised
        ELSE [endpoint |-> "sendMessage", params |-> WithReply(p2, reply_message_id)]

\* the media send methods: endpoint, field name, whether the method hands
\* content_type on as parse_mode
UrlMediaMethods ==
    [Image |-> <<"sendPhoto", "photo", TRUE>>,
     Voice |-> <<"sendVoice", "voice", FALSE>>,
     Video |-> <<"sendVideo", "video", TRUE>>,
     File |-> <<"sendDocument", "document", FALSE>>,
     Document |-> <<"sendDocument", "document", FALSE>>,
     Audio |-> <<"sendAudio", "audio", TRUE>>]

\* the call of Image, Voice, Video, File, Document or Audio with a str file
\* (URL mode)
UrlMedia_call(method, file, caption, content_type, reply_message_id) ==
    LET row == UrlMediaMethods[method]
        p1 == Put(Put([chat_id |-> TargetId], row[2], file), "caption", caption)
        p2 == IF row[3] /\ content_type # None
              THEN Put(p1, "parse_mode", content_type) ELSE p1
    IN  [endpoint |-> row[1], params |-> WithReply(p2, reply_message_id)]

\* the modifiers after At(user_id): self._at_user_ids.append(user_id)
At_modifiers(mods, user_id) == <<Append(mods[1], user_id), mods[2], mods[3]>>

\* the modifiers after AtAll(): self._at_all = True
AtAll_modifiers(mods) == <<mods[1], mods[2], TRUE>>

Reply_modifiers_first_kept(mods, message_id) ==
    <<mods[1], IF mods[2] = PyNone THEN message_id ELSE mods[2], mods[3]>>

\* the modifiers after Reply(message_id): self._reply_message_id = message_id
Reply_modifiers(mods, message_id) == <<mods[1], message_id, mods[3]>>

ConsumedModifiers(mods) == <<<<>>, mods[2], mods[3]>>

\* the modifiers after a translation: the translation assigns to none of them
ModifiersAfterTranslation(mods) == mods

----------------------------------------------------------------------------
(* TelegramAdapter.Send: the lookup of a send method by name *)

UpperChars ==
    <<"A", "B", "C", "D", "E", "F", "G", "H", "I", "J", "K", "L", "M",
      "N", "O", "P", "Q", "R", "S", "T", "U", "V", "W", "X", "Y", "Z">>
LowerChars ==
    <<"a", "b", "c", "d", "e", "f", "g", "h", "i", "j", "k", "l", "m",
      "n", "o", "p", "q", "r", "s", "t", "u", "v", "w", "x", "y", "z">>

\* name.lower()
lower(name) ==
    [i \in 1..Len(name) |->
        IF \E j \in 1..26 : UpperChars[j] = name[i]
        THEN LowerChars[CHOOSE j \in 1..26 : UpperChars[j] = name[i]]
        ELSE name[i]]

_METHOD_MAP_html_capitalized ==
    (<<"t", "e", "x", "t">> :> <<"T", "e", "x", "t">>)
       @@ (<<"i", "m", "a", "g", "e">> :> <<"I", "m", "a", "g", "e">>)
       @@ (<<"v", "o", "i", "c", "e">> :> <<"V", "o", "i", "c", "e">>)
       @@ (<<"v", "i", "d", "e", "o">> :> <<"V", "i", "d", "e", "o">>)
       @@ (<<"f", "a", "c", "e">> :> <<"F", "a", "c", "e">>)
       @@ (<<"f", "i", "l", "e">> :> <<"F", "i", "l", "e">>)
       @@ (<<"d", "o", "c", "u", "m", "e", "n", "t">> :> <<"D", "o", "c", "u", "m", "e", "n", "t">>)
       @@ (<<"a", "u", "d", "i", "o">> :> <<"A", "u", "d", "i", "o">>)
       @@ (<<"m", "a", "r", "k", "d", "o", "w", "n">> :> <<"M", "a", "r", "k", "d", "o", "w", "n">>)
       @@ (<<"h", "t", "m", "l">> :> <<"H", "t", "m", "l">>)
       @@ (<<"r", "e", "c", "a", "l", "l">> :> <<"R", "e", "c", "a", "l", "l">>)
       @@ (<<"e", "d", "i", "t">> :> <<"E", "d", "i", "t">>)
       @@ (<<"r", "a", "w", "_", "o", "b", "1", "2">> :> <<"R", "a", "w", "_", "o", "b", "1", "2">>)
       @@ (<<"r", "a", "w", "_", "j", "s", "o", "n">> :> <<"R", "a", "w", "_", "j", "s", "o", "n">>)
       @@ (<<"a", "t">> :> <<"A", "t">>)
       @@ (<<"a", "t", "a", "l", "l">> :> <<"A", "t", "A", "l", "l">>)
       @@ (<<"r", "e", "p", "l", "y">> :> <<"R", "e", "p", "l", "y">>)

\* Send._METHOD_MAP
_METHOD_MAP ==
    (<<"t", "e", "x", "t">> :> <<"T", "e", "x", "t">>)
       @@ (<<"i", "m", "a", "g", "e">> :> <<"I", "m", "a", "g", "e">>)
       @@ (<<"v", "o", "i", "c", "e">> :> <<"V", "o", "i", "c", "e">>)
       @@ (<<"v", "i", "d", "e", "o">> :> <<"V", "i", "d", "e", "o">>)
       @@ (<<"f", "a", "c", "e">> :> <<"F", "a", "c", "e">>)
       @@ (<<"f", "i", "l", "e">> :> <<"F", "i", "l", "e">>)
       @@ (<<"d", "o", "c", "u", "m", "e", "n", "t">> :> <<"D", "o", "c", "u", "m", "e", "n", "t">>)
       @@ (<<"a", "u", "d", "i", "o">> :> <<"A", "u", "d", "i", "o">>)
       @@ (<<"m", "a", "r", "k", "d", "o", "w", "n">> :> <<"M", "a", "r", "k", "d", "o", "w", "n">>)
       @@ (<<"h", "t", "m", "l">> :> <<"H", "T", "M", "L">>)
       @@ (<<"r", "e", "c", "a", "l", "l">> :> <<"R", "e", "c", "a", "l", "l">>)
       @@ (<<"e", "d", "i", "t">> :> <<"E", "d", "i", "t">>)
       @@ (<<"r", "a", "w", "_", "o", "b", "1", "2">> :> <<"R", "a", "w", "_", "o", "b", "1", "2">>)
       @@ (<<"r", "a", "w", "_", "j", "s", "o", "n">> :> <<"R", "a", "w", "_", "j", "s", "o", "n">>)
       @@ (<<"a", "t">> :> <<"A", "t">>)
       @@ (<<"a", "t", "a", "l", "l">> :> <<"A", "t", "A", "l", "l">>)
       @@ (<<"r", "e", "p", "l", "y">> :> <<"R", "e", "p", "l", "y">>)

\* the send methods and modifiers that class Send defines
SendMethods ==
    {<<"T", "e", "x", "t">>,
     <<"I", "m", "a", "g", "e">>,
     <<"V", "o", "i", "c", "e">>,
     <<"V", "i", "d", "e", "o">>,
     <<"F", "a", "c", "e">>,
     <<"F", "i", "l", "e">>,
     <<"D", "o", "c", "u", "m", "e", "n", "t">>,
     <<"A", "u", "d", "i", "o">>,
     <<"M", "a", "r", "k", "d", "o", "w", "n">>,
     <<"H", "T", "M", "L">>,
     <<"R", "e", "c", "a", "l", "l">>,
     <<"E", "d", "i", "t">>,
     <<"R", "a", "w", "_", "o", "b", "1", "2">>,
     <<"R", "a", "w", "_", "j", "s", "o", "n">>,
     <<"A", "t">>,
     <<"A", "t", "A", "l", "l">>,
     <<"R", "e", "p", "l", "y">>}

\* the depth at which the interpreter gives up a recursion
RecursionLimit == 3

\* getattr(self, name): the attribute found by the normal lookup, else what
\* __getattr__(name) returns; depth counts the nested lookups
RECURSIVE getattr(_, _)
getattr(name, depth) ==
    IF name \in SendMethods THEN [kind |-> "method", name |-> name, depth |-> depth]
    ELSE IF depth >= RecursionLimit THEN [kind |-> "RecursionError", depth |-> depth]
    ELSE IF lower(name) \in DOMAIN _METHOD_MAP
    THEN getattr(_METHOD_MAP[lower(name)], depth + 1)
    ELSE [kind |-> "unsupported_method", name |-> name, depth |-> depth]

\* Send.__getattr__(name), called when the normal lookup of name fails
__getattr__(name) == getattr(name, 0)

\* repr(arg)[:100] of a str without quotes in it, or the bytes notice
ArgInfo(arg) ==
    IF arg.ty = "bytes"
    THEN <<"<bytes: ">> \o str(arg.len) \o <<" bytes>">>
    ELSE Slice(<<"'">> \o arg.str \o <<"'">>, 0, 100)

\* params_info of the positional and the keyword arguments
ParamsInfo(args, kwargs) ==
    [i \in 1..Len(args) |-> <<"args[">> \o str(i - 1) \o <<"]: ">> \o ArgInfo(args[i])]
    \o [i \in 1..Len(kwargs) |-> kwargs[i][1] \o <<": ">> \o ArgInfo(kwargs[i][2])]

\* error_msg of unsupported_method (its fixed wording in ASCII)
ErrorMsg(name, args, kwargs) ==
    <<"[unsupported send type] method: ">> \o name \o <<", params: [">>
    \o join(<<", ">>, ParamsInfo(args, kwargs)) \o <<"]">>

\* the call of unsupported_method(*args, **kwargs), or Raised
unsupported_method(name, args, kwargs, at_user_ids, reply_message_id, at_all) ==
    Text_call(ErrorMsg(name, args, kwargs), at_user_ids, reply_message_id, at_all)

----------------------------------------------------------------------------
(* TelegramAdapter.call_api *)

\* a value of the JSON body or of the result: a dict or a list
PyDict(d) == [ty |-> "dict", dict |-> d]
PyList(items) == [ty |-> "list", list |-> items]

\* type(x) as the message of call_api writes it
TypeName(x) ==
    CASE x.ty = "none" -> <<"<class 'NoneType'>">>
      [] x.ty = "list" -> <<"<class 'list'>">>
      [] x.ty = "str" -> <<"<class 'str'>">>
      [] x.ty = "int" -> <<"<class 'int'>">>
      [] OTHER -> <<"<class 'dict'>">>

NetworkErrorReraised(params, e) == Raised

\* the result of the except branch: a network error
NetworkError(params, e) ==
    [status |-> "failed",
     retcode |-> 33001,
     data |-> PyNone,
     message_id |-> <<>>,
     message |-> <<"API call failed: ">> \o e,
     telegram_raw |-> PyNone,
     echo |-> Get(params, "echo", <<>>)]

\* the result for a body that is not a dict
UnexpectedFormat(params, raw_response) ==
    [status |-> "failed",
     retcode |-> 34000,
     data |-> PyNone,
     message_id |-> <<>>,
     message |-> <<"unexpected format: ">> \o TypeName(raw_response),
     telegram_raw |-> raw_response,
     echo |-> Get(params, "echo", <<>>)]

\* the result for a body that is a dict
NormalizedResponse(params, raw_response) ==
    LET raw == raw_response.dict
        ok == Get(raw, "ok", FALSE)
        result == Get(raw, "result", PyNone)
        response_data_ ==
            [status |-> IF ok THEN "ok" ELSE "failed",
             retcode |-> IF ok THEN 0 ELSE 34000,
             data |-> result,
             message_id |-> IF result.ty = "dict"
                            THEN StrOfGet(result.dict, "message_id") ELSE <<>>,
             message |-> IF ok THEN <<>>
                         ELSE Get(raw, "description", <<"Unknown Telegram API error">>),
             telegram_raw |-> raw_response]
    IN  IF Has(params, "echo") THEN Put(response_data_, "echo", params.echo)
        ELSE response_data_

\* call_api(endpoint, **params) with the given session, where the transport
\* does what outcome says: it raises outcome.error, or the body of the
\* response is outcome.body
call_api(session_, endpoint, params, outcome) ==
    IF session_ = "None"
    THEN NetworkError(params, <<"'NoneType' object has no attribute 'post'">>)
    ELSE IF outcome.kind = "exception" THEN NetworkError(params, outcome.error)
    ELSE IF outcome.body.ty # "dict" THEN UnexpectedFormat(params, outcome.body)
    ELSE NormalizedResponse(params, outcome.body)

\* what the transport can do with a request
Exceptions ==
    {[kind |-> "exception", error |-> e] :
        e \in {<<"Cannot connect to host">>, <<"Expecting value">>, <<>>}}

Results ==
    {PyDict([message_id |-> 7]), PyDict([date |-> 1]), PyList(<<>>), PyStr(<<"t">>)}

Bodies ==
    {PyNone, PyList(<<>>), PyStr(<<"b">>)}
    \cup {PyDict(d) :
            d \in WithOpt(WithOpt(WithOpt({EmptyDict},
                    "ok", BOOLEAN),
                    "result", Results),
                    "description", {<<"B", "a", "d">>})}

Outcomes == Exceptions \cup {[kind |-> "json", body |-> b] : b \in Bodies}

Endpoints == {"sendMessage", "getUpdates"}

ParamsOfCall == WithOpt({[chat_id |-> TargetId]}, "echo", {<<"e", "1">>, <<>>})

\* before call_api was called
NoRequest == [endpoint |-> "none"]
NoResponse == [none |-> TRUE]

\* TelegramAdapter.__init__ and a poll loop that has not begun
AdapterInit ==
    /\ session = "None"
    /\ poll_task = "None"
    /\ tasks = <<>>
    /\ api_request = NoRequest
    /\ response_data = NoResponse
    /\ poll_offset = 0
    /\ server = [next_id |-> 1, pending |-> <<>>]
    /\ response = NoResponse
    /\ updates = <<>>
    /\ emitted = <<>>
    /\ delivered = <<>>
    /\ poll_pc = "not started"

----------------------------------------------------------------------------
(* The Send object: its state and what it is called with *)

\* invoked before any send method was called
NoInvocation == [method |-> "none"]

\* api_call before any call was handed over
NoCall == [none |-> TRUE]

\* Send.__init__
SendInit ==
    /\ _at_user_ids = <<>>
    /\ _reply_message_id = PyNone
    /\ _at_all = FALSE
    /\ invoked = NoInvocation
    /\ api_call = NoCall
    /\ send_pc = "chain"

AtTargets == {<<"9">>, <<"b", "o">>}

ReplyArguments == {PyStr(<<"5">>), PyStr(<<"x">>), PyInt(8)}

Texts == {<<"h", "i">>, <<>>}

\* the arguments of a media send in URL mode
FileUrls == {<<"u", "9">>}
Captions == {<<>>}
ContentTypes == {None, <<"HTML">>}

TextSeg == [type |-> "text", data |-> [text |-> <<"g", "o", " ">>]]
ImageSeg == [type |-> "image", data |-> [file_id |-> <<"F", "1">>, url |-> <<"u", "1">>]]
VideoSeg == [type |-> "video", data |-> [url |-> <<"u", "2">>]]
MentionSeg == [type |-> "mention", data |-> [user_id |-> <<"9">>]]
AtSeg == [type |-> "at", data |-> [user_id |-> <<"b", "o">>, name |-> <<"@", "b", "o">>]]
ReplySeg == [type |-> "reply", data |-> [message_id |-> PyStr(<<"7">>)]]

CoreSegments == {TextSeg, ImageSeg, MentionSeg, AtSeg, ReplySeg}

\* reply segments by what their message_id is
ReplySegments ==
    {[type |-> "reply", data |-> d] :
        d \in WithOpt({EmptyDict}, "message_id",
                      {PyStr(<<"0">>), PyStr(<<"x">>), PyStr(<<"7">>), PyInt(0), PyInt(7),
                       PyNone})}

MediaData ==
    {[file_id |-> <<"F", "1">>, url |-> <<"u", "1">>],
     [file_id |-> <<>>, url |-> <<"u", "2">>],
     [file |-> <<"f", "3">>, caption |-> <<"c", "a", "p">>]}

MediaSegments == {[type |-> t, data |-> d] : t \in MediaTypes, d \in MediaData}

\* mention segments by what names the user
MentionSegments ==
    {[type |-> t, data |-> d] :
        t \in {"at", "mention"},
        d \in {EmptyDict, [name |-> <<"b", "o">>], [user_id |-> <<"b", "o">>],
               [user_id |-> <<"9">>, name |-> <<"N">>], [user_id |-> <<"^2">>]}}

\* segments the first loop passes over
OtherSegments ==
    {[type |-> "face", data |-> [id |-> <<"1">>]], [data |-> EmptyDict],
     [type |-> "text", data |-> EmptyDict], [type |-> "text"]}

\* attribute names looked up on a Send object
AttributeNames ==
    {<<"H", "t", "m", "l">>, <<"h", "t", "m", "l">>, <<"T", "E", "X", "T">>,
     <<"a", "t", "A", "l", "l">>, <<"R", "A", "W", "_", "O", "B", "1", "2">>,
     <<"H", "T", "M", "L">>, <<"S", "t", "i", "c", "k", "e", "r">>,
     <<"l", "o", "c", "a", "t", "i", "o", "n">>, <<"F", "o", "o", "1">>, <<>>}

PyBytes(n) == [ty |-> "bytes", len |-> n]

\* positional and keyword arguments of a call of a missing method
Arguments == {<<>>, <<PyStr(<<"x">>)>>, <<PyBytes(3), PyStr(<<>>)>>}
KeywordArguments == {<<>>, << <<<<"k">>, PyStr(<<"v">>)>> >>, << <<<<"b">>, PyBytes(0)>> >>}

\* the messages handed to Raw_ob12
Messages ==
    SeqsUpTo(CoreSegments, MaxSegs)
    \cup {<<r>> : r \in ReplySegments}
    \cup {<<TextSeg, r>> : r \in ReplySegments}
    \cup {<<r, ReplySeg>> : r \in ReplySegments}
    \cup {<<m>> : m \in MediaSegments}
    \cup {<<m, n>> : m \in MediaSegments, n \in MediaSegments}
    \cup {<<TextSeg, m, n>> : m \in {ImageSeg, VideoSeg}, n \in {ImageSeg, VideoSeg}}
    \cup {<<m, AtSeg, n>> : m \in {ImageSeg, VideoSeg}, n \in {ImageSeg, VideoSeg}}
    \cup {<<ReplySeg, m, n>> : m \in {ImageSeg, VideoSeg}, n \in {ImageSeg, VideoSeg}}
    \cup {<<m>> : m \in MentionSegments}
    \cup {<<TextSeg, m, TextSeg>> : m \in MentionSegments}
    \cup {<<o>> : o \in OtherSegments}
    \cup {<<o, ReplySeg>> : o \in OtherSegments}

----------------------------------------------------------------------------
(* The converter's run: one update is received and converted *)

\* onebot_event before convert has returned
Pending == [pending |-> TRUE]

InitConvert ==
    /\ raw_event \in Updates
    /\ onebot_event = Pending
    /\ pc = "received"
    /\ SendInit
    /\ AdapterInit

\* onebot_event = self.convert(update)
Convert ==
    /\ pc = "received"
    /\ \E now \in Times : onebot_event' = convert(raw_event, now)
    /\ pc' = "converted"
    /\ UNCHANGED raw_event
    /\ UNCHANGED sendVars
    /\ UNCHANGED adapterVars

NextConvert == Convert

SpecConvert == InitConvert /\ [][NextConvert]_vars

----------------------------------------------------------------------------
(* The adapter as its senders see it: start, shutdown and call_api *)

InitCall ==
    /\ AdapterInit
    /\ SendInit
    /\ raw_event = NotADict
    /\ onebot_event = Pending
    /\ pc = "idle"

\* the proxy settings of the configuration
ProxyConfigs ==
    {[proxy_enabled |-> FALSE],
     [proxy_enabled |-> TRUE],
     [proxy_enabled |-> TRUE, proxy |-> [type |-> "socks5", host |-> "h", port |-> 1080]],
     [proxy_enabled |-> TRUE, proxy |-> [type |-> "socks4", port |-> 1080]],
     [proxy_enabled |-> TRUE, proxy |-> [type |-> "http", host |-> "h", port |-> 8080]]}

\* start() raises before it has a session: a socks proxy without host or port
StartRaises(config) ==
    /\ config.proxy_enabled /\ Has(config, "proxy")
    /\ Get(config.proxy, "type", "None") \in {"socks5", "socks4"}
    /\ ~(Has(config.proxy, "host") /\ Has(config.proxy, "port"))

\* TelegramAdapter.start: a new session and a new poll task, whose loop
\* begins with its own locals; a poll task that is running is neither
\* cancelled nor awaited, it only loses its reference.  poll_task refers to
\* the task created last.
Start(config) ==
    /\ Len(tasks) < MaxStarts
    /\ IF StartRaises(config)
       THEN UNCHANGED <<lifecycleVars, poll_offset, response, updates, poll_pc>>
       ELSE /\ session' = "open"
            /\ poll_task' = "running"
            /\ tasks' = Append(tasks, "running")
            /\ poll_offset' = 0
            /\ response' = NoResponse
            /\ updates' = <<>>
            /\ poll_pc' = "call"
    /\ UNCHANGED <<server, emitted, delivered>>
    /\ UNCHANGED callVars
    /\ UNCHANGED <<convertVars, sendVars>>

\* TelegramAdapter.shutdown: the task poll_task refers to is cancelled and
\* awaited (its locals are gone with it), the session is closed
Shutdown ==
    /\ poll_task' = "None"
    /\ session' = "None"
    /\ IF poll_task = "running"
       THEN /\ tasks' = [tasks EXCEPT ![Len(tasks)] = "cancelled"]
            /\ poll_pc' = "cancelled"
            /\ poll_offset' = 0
            /\ response' = NoResponse
            /\ updates' = <<>>
       ELSE UNCHANGED <<tasks, poll_offset, response, updates, poll_pc>>
    /\ UNCHANGED <<server, emitted, delivered>>
    /\ UNCHANGED callVars
    /\ UNCHANGED <<convertVars, sendVars>>

\* a sender awaits call_api(endpoint, **params)
CallApi(endpoint, params, outcome) ==
    /\ api_request' = [endpoint |-> endpoint, params |-> params, outcome |-> outcome,
                       session |-> session]
    /\ response_data' = call_api(session, endpoint, params, outcome)
    /\ UNCHANGED <<lifecycleVars, pollVars>>
    /\ UNCHANGED <<convertVars, sendVars>>

NextCall ==
    \/ \E config \in ProxyConfigs : Start(config)
    \/ Shutdown
    \/ \E endpoint \in Endpoints, params \in ParamsOfCall, outcome \in Outcomes :
           CallApi(endpoint, params, outcome)

SpecCall == InitCall /\ [][NextCall]_vars

----------------------------------------------------------------------------
(* The polling loop of a started adapter against the Bot API *)

\* the state start() leaves: a session and a poll task at the top of its loop
InitPoll ==
    /\ session = "open"
    /\ poll_task = "running"
    /\ tasks = <<"running">>
    /\ api_request = NoRequest
    /\ response_data = NoResponse
    /\ poll_offset = 0
    /\ server = [next_id |-> 1, pending |-> <<>>]
    /\ response = NoResponse
    /\ updates = <<>>
    /\ emitted = <<>>
    /\ delivered = <<>>
    /\ poll_pc = "call"
    /\ SendInit
    /\ raw_event = NotADict
    /\ onebot_event = Pending
    /\ pc = "idle"

\* updates as the Bot API numbers them: a text message, and a message whose
\* photo list is empty
TextUpdate(id) ==
    [order |-> <<"update_id", "message">>,
     fields |-> [update_id |-> id,
                 message |-> [message_id |-> id,
                              chat |-> [id |-> 100, type |-> "private"],
                              from |-> [id |-> 5, username |-> <<"a", "l">>],
                              text |-> <<"h", "i">>]]]
EmptyPhotoUpdate(id) ==
    [order |-> <<"update_id", "message">>,
     fields |-> [update_id |-> id, message |-> [message_id |-> id, photo |-> <<>>]]]

ArrivingUpdates(id) == {TextUpdate(id), EmptyPhotoUpdate(id)}

\* the Bot API receives an update for the bot
Arrive(update) ==
    /\ server.next_id <= MaxUpdates
    /\ server' = [next_id |-> server.next_id + 1,
                  pending |-> Append(server.pending, update)]
    /\ UNCHANGED <<poll_offset, response, updates, emitted, delivered, poll_pc>>
    /\ UNCHANGED <<lifecycleVars, callVars>>
    /\ UNCHANGED <<convertVars, sendVars>>

IsUnconfirmed(update) == update.fields.update_id >= poll_offset

\* what the Bot API still holds after a getUpdates with the loop's offset
Unconfirmed == SelectSeq(server.pending, IsUnconfirmed)

\* the answers to getUpdates: the transport raises, the body is no dict, the
\* Bot API refuses, or it returns the updates from offset on
GetUpdatesOutcomes ==
    {[kind |-> "exception", error |-> <<"Cannot connect to host">>],
     [kind |-> "json", body |-> PyList(<<>>)],
     [kind |-> "json", body |-> PyDict([ok |-> FALSE, description |-> <<"B", "a", "d">>])],
     [kind |-> "json", body |-> PyDict([ok |-> TRUE, result |-> PyList(Unconfirmed)])]}

Answered(outcome) ==
    outcome.kind = "json" /\ outcome.body.ty = "dict"

\* response = await self.call_api("getUpdates", offset=offset, timeout=60)
GetUpdates(outcome) ==
    /\ poll_task = "running" /\ poll_pc = "call"
    /\ response' = call_api(session, "getUpdates",
                            [offset |-> poll_offset, timeout |-> 60], outcome)
    /\ IF Answered(outcome)
       THEN server' = [server EXCEPT !.pending = Unconfirmed]
       ELSE UNCHANGED server
    /\ delivered' = IF Answered(outcome) /\ Get(outcome.body.dict, "ok", FALSE)
                    THEN delivered \o outcome.body.dict.result.list
                    ELSE delivered
    /\ poll_pc' = "check"
    /\ UNCHANGED <<poll_offset, updates, emitted>>
    /\ UNCHANGED <<lifecycleVars, callVars>>
    /\ UNCHANGED <<convertVars, sendVars>>

\* a check of the response that leaves the loop on a failed status
CheckResponseReturnsOnFailure ==
    /\ poll_task = "running" /\ poll_pc = "check"
    /\ IF response.status # "ok"
       THEN updates' = <<>> /\ poll_pc' = "returned"
       ELSE IF response.data.ty = "list" /\ response.data.list # <<>>
       THEN updates' = response.data.list /\ poll_pc' = "handle"
       ELSE updates' = <<>> /\ poll_pc' = "call"
    /\ UNCHANGED <<poll_offset, server, response, emitted, delivered>>
    /\ UNCHANGED <<lifecycleVars, callVars>>
    /\ UNCHANGED <<convertVars, sendVars>>

\* the check of the response, up to the first update or the sleep
CheckResponse ==
    /\ poll_task = "running" /\ poll_pc = "check"
    /\ IF response.status # "ok"
       THEN updates' = <<>> /\ poll_pc' = "call"
       ELSE IF response.data.ty = "list" /\ response.data.list # <<>>
       THEN updates' = response.data.list /\ poll_pc' = "handle"
       ELSE updates' = <<>> /\ poll_pc' = "call"
    /\ UNCHANGED <<poll_offset, server, response, emitted, delivered>>
    /\ UNCHANGED <<lifecycleVars, callVars>>
    /\ UNCHANGED <<convertVars, sendVars>>

\* an offset set to the update's own id
NextOffsetAtUpdate(offset_, update_id) ==
    IF update_id >= offset_ THEN update_id ELSE offset_

\* the offset after an update with update_id was read
NextOffset(offset_, update_id) ==
    IF update_id >= offset_ THEN update_id + 1 ELSE offset_

\* one turn of the for loop: the offset, the conversion, the emit; an
\* exception ends the turn and the rest of the response with it
HandleUpdate ==
    /\ poll_task = "running" /\ poll_pc = "handle"
    /\ LET update == Head(updates)
       IN  IF ~KeyIn(update, "update_id")
           THEN /\ updates' = <<>> /\ poll_pc' = "call"
                /\ UNCHANGED <<poll_offset, emitted>>
           ELSE /\ poll_offset' = NextOffset(poll_offset, update.fields.update_id)
                /\ \E now \in Times :
                     LET event == convert(update, now)
                     IN  IF Has(event, "raised")
                         THEN /\ updates' = <<>> /\ poll_pc' = "call"
                              /\ UNCHANGED emitted
                         ELSE /\ emitted' = IF Has(event, "none") THEN emitted
                                            ELSE Append(emitted, event)
                              /\ updates' = Tail(updates)
                              /\ poll_pc' = IF Tail(updates) = <<>> THEN "call"
                                            ELSE "handle"
    /\ UNCHANGED <<server, response, delivered>>
    /\ UNCHANGED <<lifecycleVars, callVars>>
    /\ UNCHANGED <<convertVars, sendVars>>

NextPoll ==
    \/ \E update \in ArrivingUpdates(server.next_id) : Arrive(update)
    \/ \E outcome \in GetUpdatesOutcomes : GetUpdates(outcome)
    \/ CheckResponse
    \/ HandleUpdate

SpecPoll == InitPoll /\ [][NextPoll]_vars

----------------------------------------------------------------------------
(* The polling loop with an event bus whose emit may raise, until its task
   is cancelled; and the adapter's life, start and shutdown around the loop *)

\* await self.sdk.adapter.emit(onebot_event) raises: the turn of the for
\* loop ends in the except branch, after the offset was moved
EmitRaises ==
    /\ poll_task = "running" /\ poll_pc = "handle"
    /\ KeyIn(Head(updates), "update_id")
    /\ \E now \in Times :
           LET event == convert(Head(updates), now)
           IN  ~Has(event, "raised") /\ ~Has(event, "none")
    /\ poll_offset' = NextOffset(poll_offset, Head(updates).fields.update_id)
    /\ updates' = <<>>
    /\ poll_pc' = "call"
    /\ UNCHANGED <<server, response, emitted, delivered>>
    /\ UNCHANGED <<lifecycleVars, callVars>>
    /\ UNCHANGED <<convertVars, sendVars>>

\* the steps of the loop
LoopStep ==
    \/ \E outcome \in GetUpdatesOutcomes : GetUpdates(outcome)
    \/ CheckResponse
    \/ HandleUpdate
    \/ EmitRaises

\* the loop of a started adapter, up to the shutdown that cancels its task
NextLoop ==
    \/ \E update \in ArrivingUpdates(server.next_id) : Arrive(update)
    \/ LoopStep
    \/ Shutdown

SpecLoop == InitPoll /\ [][NextLoop]_vars

\* the event loop runs the poll task: every await of the loop (the request,
\* the sleeps, the emit) returns or raises
SpecLoopFair == SpecLoop /\ WF_vars(LoopStep)

InitRun == InitCall

NextRun ==
    \/ \E config \in ProxyConfigs : Start(config)
    \/ Shutdown
    \/ \E update \in ArrivingUpdates(server.next_id) : Arrive(update)
    \/ LoopStep

SpecRun == InitRun /\ [][NextRun]_vars

----------------------------------------------------------------------------
(* The chain on one Send object: modifiers, then a send method *)

InitSend ==
    /\ SendInit
    /\ AdapterInit
    /\ raw_event = NotADict
    /\ onebot_event = Pending
    /\ pc = "idle"

\* Send.At
At(user_id) ==
    /\ send_pc = "chain"
    /\ Len(_at_user_ids) < MaxAt
    /\ LET after == At_modifiers(modifiers, user_id)
       IN  /\ _at_user_ids' = after[1]
           /\ _reply_message_id' = after[2]
           /\ _at_all' = after[3]
    /\ UNCHANGED <<invoked, api_call, send_pc>>
    /\ UNCHANGED convertVars
    /\ UNCHANGED adapterVars

\* Send.AtAll
AtAll ==
    /\ send_pc = "chain"
    /\ LET after == AtAll_modifiers(modifiers)
       IN  /\ _at_user_ids' = after[1]
           /\ _reply_message_id' = after[2]
           /\ _at_all' = after[3]
    /\ UNCHANGED <<invoked, api_call, send_pc>>
    /\ UNCHANGED convertVars
    /\ UNCHANGED adapterVars

\* Send.Reply
Reply(message_id) ==
    /\ send_pc = "chain"
    /\ LET after == Reply_modifiers(modifiers, message_id)
       IN  /\ _at_user_ids' = after[1]
           /\ _reply_message_id' = after[2]
           /\ _at_all' = after[3]
    /\ UNCHANGED <<invoked, api_call, send_pc>>
    /\ UNCHANGED convertVars
    /\ UNCHANGED adapterVars

\* Send.Text
Text(text) ==
    /\ send_pc = "chain"
    /\ invoked' = [method |-> "Text", text |-> text, times |-> 1]
    /\ api_call' = Text_call(text, _at_user_ids, _reply_message_id, _at_all)
    /\ send_pc' = "sent"
    /\ UNCHANGED modifiers
    /\ UNCHANGED convertVars
    /\ UNCHANGED adapterVars

\* Send.Image, Voice, Video, File, Document, Audio with a URL
UrlMedia(method, file, caption, content_type) ==
    /\ send_pc = "chain"
    /\ invoked' = [method |-> method, file |-> file, caption |-> caption,
                   content_type |-> content_type]
    /\ api_call' = UrlMedia_call(method, file, caption, content_type,
                                 _reply_message_id)
    /\ send_pc' = "sent"
    /\ UNCHANGED modifiers
    /\ UNCHANGED convertVars
    /\ UNCHANGED adapterVars

\* what a translation of message leaves: the call and the modifiers
Translate(message) ==
    /\ api_call' = _convert_ob12_to_telegram(message, _at_user_ids,
                                             _reply_message_id, _at_all)
    /\ LET after == ModifiersAfterTranslation(modifiers)
       IN  /\ _at_user_ids' = after[1]
           /\ _reply_message_id' = after[2]
           /\ _at_all' = after[3]

\* Send.Raw_ob12
Raw_ob12(message) ==
    /\ send_pc = "chain"
    /\ invoked' = [method |-> "Raw_ob12", message |-> message, times |-> 1]
    /\ Translate(message)
    /\ send_pc' = "sent"
    /\ UNCHANGED convertVars
    /\ UNCHANGED adapterVars

\* Send.Raw_ob12 once more, with the same message on the same object
Raw_ob12Again ==
    /\ send_pc = "sent"
    /\ invoked.method = "Raw_ob12"
    /\ invoked.times < MaxTranslations
    /\ invoked' = [invoked EXCEPT !.times = @ + 1]
    /\ Translate(invoked.message)
    /\ UNCHANGED send_pc
    /\ UNCHANGED convertVars
    /\ UNCHANGED adapterVars

\* getattr(send, name) for a name that resolves to a method
LookupMethod(name) ==
    /\ send_pc = "chain"
    /\ getattr(name, 0).kind # "unsupported_method"
    /\ invoked' = [method |-> "getattr", name |-> name, found |-> getattr(name, 0)]
    /\ send_pc' = "resolved"
    /\ UNCHANGED <<api_call, _at_user_ids, _reply_message_id, _at_all>>
    /\ UNCHANGED convertVars
    /\ UNCHANGED adapterVars

\* getattr(send, name)(*args, **kwargs) for a name that no method has
CallMissing(name, args, kwargs) ==
    /\ send_pc = "chain"
    /\ getattr(name, 0).kind = "unsupported_method"
    /\ invoked' = [method |-> "unsupported_method", name |-> name,
                   args |-> args, kwargs |-> kwargs, found |-> getattr(name, 0)]
    /\ api_call' = unsupported_method(name, args, kwargs, _at_user_ids,
                                      _reply_message_id, _at_all)
    /\ send_pc' = "sent"
    /\ UNCHANGED modifiers
    /\ UNCHANGED convertVars
    /\ UNCHANGED adapterVars

NextSend ==
    \/ \E name \in AttributeNames : LookupMethod(name)
    \/ \E name \in AttributeNames, args \in Arguments, kwargs \in KeywordArguments :
           CallMissing(name, args, kwargs)
    \/ \E user_id \in AtTargets : At(user_id)
    \/ AtAll
    \/ \E message_id \in ReplyArguments : Reply(message_id)
    \/ \E text \in Texts : Text(text)
    \/ \E method \in DOMAIN UrlMediaMethods, file \in FileUrls, caption \in Captions,
          content_type \in ContentTypes :
           UrlMedia(method, file, caption, content_type)
    \/ \E message \in Messages : Raw_ob12(message)
    \/ Raw_ob12Again

SpecSend == InitSend /\ [][NextSend]_vars

----------------------------------------------------------------------------
(* Properties of the converter *)

\* convert has returned or raised for an update that is a dict with an update_id
ConvertedUpdate ==
    pc = "converted" /\ isinstance_dict(raw_event) /\ KeyIn(raw_event, "update_id")

\* convert returned an event (not None, no exception)
EventReturned ==
    ConvertedUpdate /\ ~Has(onebot_event, "raised") /\ ~Has(onebot_event, "none")

\* the update of a returned message event, and the message object it was built from
MessageEvent == EventReturned /\ onebot_event.type = "message"
MessageRead == raw_event.fields[MessageKeyRead(raw_event)]

\* C1: for every update that is a dict and carries an update_id, convert
\* returns, without raising, an event whose id, type and platform are
\* non-empty, whichever optional fields the payload lacks.
C1_ConvertTotal ==
    ConvertedUpdate =>
        /\ ~Has(onebot_event, "raised")
        /\ ~Has(onebot_event, "none")
        /\ onebot_event.id # <<>>
        /\ onebot_event.type # ""
        /\ onebot_event.platform # ""

FirstDeclared(raw) ==
    CHOOSE i \in 1..Len(_event_type_map) :
        /\ KeyIn(raw, _event_type_map[i][1])
        /\ \A j \in 1..(i - 1) : ~KeyIn(raw, _event_type_map[j][1])

\* C3: an update holding several recognized keys is classified by the key
\* that comes first in the declaration order of the table, whatever the
\* order of the keys in the update.
C3_FirstMatchByDeclaration ==
    (EventReturned /\ DOMAIN raw_event.fields \cap RecognizedKeys # {}) =>
        /\ onebot_event.telegram_raw_type = _event_type_map[FirstDeclared(raw_event)][1]
        /\ onebot_event.type = _event_type_map[FirstDeclared(raw_event)][2]

C3_Witness ==
    /\ EventReturned
    /\ raw_event.order = <<"update_id", "callback_query", "message">>
    /\ onebot_event.telegram_raw_type = "message"
    /\ onebot_event.type = "message"

\* C4: when the message holds a reply_to_message, the segment list returned
\* has a reply segment first and no reply segment after it, whatever text,
\* media and entities the message holds.
C4_ReplyFirst ==
    (MessageEvent /\ Has(onebot_event, "message")
       /\ Has(MessageRead, "reply_to_message")) =>
        LET segs == onebot_event.message
        IN  /\ Len(segs) >= 1
            /\ segs[1].type = "reply"
            /\ \A i \in 2..Len(segs) : segs[i].type # "reply"

C4_Witness ==
    /\ MessageEvent /\ Has(onebot_event, "message")
    /\ Has(MessageRead, "reply_to_message")
    /\ Has(MessageRead, "text") /\ Has(MessageRead, "photo")
    /\ Has(MessageRead, "entities")
    /\ Len(onebot_event.message) = 4
    /\ onebot_event.message[1].type = "reply"
    /\ onebot_event.message[2].type = "text"
    /\ onebot_event.message[3].type = "image"
    /\ onebot_event.message[4].type = "at"

\* t is s without its leading and trailing spaces, and is not empty
IsTrimOf(t, s) ==
    /\ t # <<>> /\ t[1] # " " /\ t[Len(t)] # " "
    /\ \E i \in 0..Len(s) :
          /\ i + Len(t) <= Len(s)
          /\ SubSeq(s, i + 1, i + Len(t)) = t
          /\ \A k \in 1..Len(s) : (k <= i \/ k > i + Len(t)) => s[k] = " "

\* name is what the precedence rule gives for user
IsDisplayName(name, user) ==
    LET joined == Get(user, "first_name", <<>>) \o <<" ">> \o Get(user, "last_name", <<>>)
    IN  IF Has(user, "username") /\ user.username # <<>>
        THEN name = user.username
        ELSE IF \E k \in 1..Len(joined) : joined[k] # " "
        THEN IsTrimOf(name, joined)
        ELSE name = (IF Has(user, "id") THEN str(user.id) ELSE <<>>)

\* C7: the display name is the username when it is present and non-empty;
\* else first and last name joined by one space and trimmed, when that is
\* non-empty; else the user id as a string.
C7_DisplayNamePrecedence ==
    (MessageEvent /\ Has(onebot_event, "user_nickname")) =>
        IsDisplayName(onebot_event.user_nickname, MessageRead.from)

C7_Witness ==
    /\ MessageEvent /\ Has(onebot_event, "user_nickname")
    /\ ~Has(MessageRead.from, "username")
    /\ Has(MessageRead.from, "id")
    /\ onebot_event.user_nickname = <<"A", " ", "B">>

\* the chat of the message a message event was built from
ChatRead == Get(MessageRead, "chat", EmptyDict)

\* C11: the detail_type of a message event is "user" for a private chat,
\* "group" for a group or supergroup, "channel" for a channel and the chat's
\* type itself for any other type, under each of the four message keys.
C11_DetailTypeMapping ==
    (MessageEvent /\ Has(ChatRead, "type")) =>
        onebot_event.detail_type =
            CASE ChatRead.type = "private" -> "user"
              [] ChatRead.type = "group" -> "group"
              [] ChatRead.type = "supergroup" -> "group"
              [] ChatRead.type = "channel" -> "channel"
              [] OTHER -> ChatRead.type

C11_Witness ==
    /\ MessageEvent
    /\ MessageKeyRead(raw_event) = "edited_channel_post"
    /\ Has(ChatRead, "type") /\ ChatRead.type = "supergroup"
    /\ onebot_event.detail_type = "group"

\* C12: in a message event group_id is present exactly when detail_type is
\* "group" and channel_id exactly when it is "channel"; no event that convert
\* returns has both group_id and channel_id.
C12_GroupChannelExclusive ==
    EventReturned =>
        /\ ~(Has(onebot_event, "group_id") /\ Has(onebot_event, "channel_id"))
        /\ onebot_event.type = "message" =>
               /\ Has(onebot_event, "group_id") <=> onebot_event.detail_type = "group"
               /\ Has(onebot_event, "channel_id") <=> onebot_event.detail_type = "channel"

C12_Witness ==
    /\ EventReturned
    /\ onebot_event.type = "notice"
    /\ onebot_event.telegram_raw_type = "callback_query"
    /\ Has(onebot_event, "channel_id") /\ ~Has(onebot_event, "group_id")

\* C13: every event returned for a recognized update (type message, notice or
\* request) has a non-empty detail_type.
C13_DetailTypeNonEmpty ==
    (EventReturned /\ onebot_event.type \in {"message", "notice", "request"}) =>
        onebot_event.detail_type # ""

\* s has t as a contiguous part
Contains(s, t) ==
    \E i \in 0..(Len(s) - Len(t)) : SubSeq(s, i + 1, i + Len(t)) = t

\* the url of a segment, None when it has none
SegmentUrl(segment) == Get(segment.data, "url", None)

\* C15: the token is in no field of an event that convert returns, the raw
\* update excepted: in particular not in the url of a media segment built
\* from a media object with a file_path.
C15_TokenNotInEvent ==
    MessageEvent =>
        \A i \in 1..Len(onebot_event.message) :
            LET url == SegmentUrl(onebot_event.message[i])
            IN  url # None => ~Contains(url, Token)

\* C18: convert leaves the update it is given as it was, and telegram_raw of
\* every event it returns, the unknown event included, is that update.
C18_RawPreserved ==
    [][pc' = "converted" =>
          /\ raw_event' = raw_event
          /\ (~Has(onebot_event', "raised") /\ ~Has(onebot_event', "none")) =>
                 /\ Has(onebot_event', "telegram_raw")
                 /\ onebot_event'.telegram_raw = raw_event]_vars

C18_Witness ==
    /\ MessageEvent
    /\ Len(onebot_event.message) >= 2
    /\ onebot_event.telegram_raw = raw_event
    /\ raw_event.order = <<"update_id", "message">>

----------------------------------------------------------------------------
(* Properties of the outbound translation *)

\* Raw_ob12 translated invoked.message and the translation returned a call
Translated ==
    send_pc = "sent" /\ invoked.method = "Raw_ob12" /\ ~Has(api_call, "raised")

IsMentionSegment(segment) == Get(segment, "type", "None") \in {"at", "mention"}
IsMediaSegment(segment) == Get(segment, "type", "None") \in MediaTypes
IsReplySegment(segment) == Get(segment, "type", "None") = "reply"

\* the token a mention segment puts into the text
SegmentToken(segment) ==
    LET data == Get(segment, "data", EmptyDict)
    IN  Get(data, "name", <<"@">> \o Get(data, "user_id", <<>>))

\* the tokens of the mentions of a translation, in the order of its entities:
\* those of the mention segments, then those of the At() targets
MentionTokens(message, at_user_ids) ==
    LET mentions == SelectSeq(message, IsMentionSegment)
    IN  [i \in 1..Len(mentions) |-> SegmentToken(mentions[i])]
        \o AtTokens(at_user_ids)

\* the text of a call covered by an entity
Covered(text, entity) == Slice(text, entity.offset, entity.offset + entity.length)

\* C5: for every mention entity of a call produced by
\* _convert_ob12_to_telegram, from a mention/at segment or from an At()
\* target, with or without AtAll(), the text from offset to offset+length is
\* exactly the token emitted for that mention.
C5_OffsetCorrect ==
    (Translated /\ Has(api_call.params, "entities")) =>
        LET tokens == MentionTokens(invoked.message, _at_user_ids)
            entities == api_call.params.entities
        IN  /\ Len(entities) = Len(tokens)
            /\ \A i \in 1..Len(entities) :
                   Covered(api_call.params.text, entities[i]) = tokens[i]

MediaOf(message) == SelectSeq(message, IsMediaSegment)

\* message without the media segments after its first one
RECURSIVE WithoutLaterMedia(_, _)
WithoutLaterMedia(message, seen) ==
    IF message = <<>> THEN <<>>
    ELSE IF IsMediaSegment(Head(message))
    THEN (IF seen THEN <<>> ELSE <<Head(message)>>)
         \o WithoutLaterMedia(Tail(message), TRUE)
    ELSE <<Head(message)>> \o WithoutLaterMedia(Tail(message), seen)

\* the endpoint and the field of the Bot API for each media type
EndpointOfType ==
    [image |-> "sendPhoto", video |-> "sendVideo", voice |-> "sendVoice",
     audio |-> "sendAudio", file |-> "sendDocument"]
FieldOfType ==
    [image |-> "photo", video |-> "video", voice |-> "voice",
     audio |-> "audio", file |-> "document"]

\* C6: for a message with two or more media segments the translation gives
\* one call whose endpoint and media field are those of the first media
\* segment, whose media reference comes from that segment, and which is the
\* call of the same message without its later media segments.
C6_SingleMedia ==
    (Translated /\ Len(MediaOf(invoked.message)) >= 2) =>
        LET first == MediaOf(invoked.message)[1]
            field == FieldOfType[first.type]
        IN  /\ api_call.endpoint = EndpointOfType[first.type]
            /\ DOMAIN api_call.params \cap {FieldOfType[t] : t \in MediaTypes} = {field}
            /\ api_call.params[field] \in
                   {first.data[k] : k \in DOMAIN first.data \cap {"file_id", "url", "file"}}
            /\ api_call =
                   _convert_ob12_to_telegram(WithoutLaterMedia(invoked.message, FALSE),
                                             _at_user_ids, _reply_message_id, _at_all)

C6_Witness ==
    /\ Translated
    /\ Len(invoked.message) = 2
    /\ Get(invoked.message[1], "type", "None") = "voice"
    /\ Get(invoked.message[2], "type", "None") = "image"
    /\ invoked.message[1].data # invoked.message[2].data
    /\ MediaFile(invoked.message[1].data) # MediaFile(invoked.message[2].data)
    /\ api_call.endpoint = "sendVoice"

\* the reply segments of message whose message_id int() takes
ValidReplyIds(message) ==
    {IntOf(Get(Get(message[i], "data", EmptyDict), "message_id", PyNone)) :
        i \in {j \in 1..Len(message) :
                 /\ IsReplySegment(message[j])
                 /\ CanInt(Get(Get(message[j], "data", EmptyDict), "message_id", PyNone))}}

HasReplySegment(message) == \E i \in 1..Len(message) : IsReplySegment(message[i])

\* C8: with a reply segment of a valid numeric id anywhere in the message and
\* a Reply() target set as well, reply_to_message_id of the call is the
\* segment's id, 0 included; with neither, the call has no
\* reply_to_message_id.
C8_ReplyPrecedence ==
    Translated =>
        /\ (ValidReplyIds(invoked.message) # {} /\ _reply_message_id # PyNone) =>
               /\ Has(api_call.params, "reply_to_message_id")
               /\ api_call.params.reply_to_message_id \in ValidReplyIds(invoked.message)
        /\ (~HasReplySegment(invoked.message) /\ _reply_message_id = PyNone) =>
               ~Has(api_call.params, "reply_to_message_id")

\* the text the text segments of message carry
RECURSIVE TextOf(_)
TextOf(message) ==
    IF message = <<>> THEN <<>>
    ELSE (IF Get(Head(message), "type", "None") = "text"
          THEN Get(Get(Head(message), "data", EmptyDict), "text", <<>>)
          ELSE <<>>)
         \o TextOf(Tail(message))

NoModifiers == _at_user_ids = <<>> /\ _reply_message_id = PyNone /\ ~_at_all

NoContent(message) ==
    /\ TextOf(message) = <<>>
    /\ \A i \in 1..Len(message) :
           ~IsMentionSegment(message[i]) /\ ~IsMediaSegment(message[i])

\* C9: the translation of a message with no text, no mention and no media
\* (the empty message included), with no modifier set, returns a sendMessage
\* call whose text is one space and which has no entities.
C9_EmptyContent ==
    (send_pc = "sent" /\ invoked.method = "Raw_ob12"
        /\ NoContent(invoked.message) /\ NoModifiers) =>
        /\ ~Has(api_call, "raised")
        /\ api_call.endpoint = "sendMessage"
        /\ api_call.params.text = <<" ">>
        /\ ~Has(api_call.params, "entities")

C9_Witness ==
    /\ send_pc = "sent" /\ invoked.method = "Raw_ob12"
    /\ invoked.message = <<>> /\ NoModifiers
    /\ api_call = [endpoint |-> "sendMessage",
                   params |-> [chat_id |-> TargetId, text |-> <<" ">>]]

RECURSIVE RenderedSegments(_)
RenderedSegments(message) ==
    IF message = <<>> THEN <<>>
    ELSE LET segment == Head(message)
             data == Get(segment, "data", EmptyDict)
         IN  (IF Get(segment, "type", "None") = "text" THEN Get(data, "text", <<>>)
              ELSE IF IsMentionSegment(segment) THEN SegmentToken(segment)
              ELSE <<>>)
             \o RenderedSegments(Tail(message))

\* what the first k At() targets add to the text
RECURSIVE RenderedAt(_, _)
RenderedAt(at_user_ids, k) ==
    IF k = 0 THEN <<>>
    ELSE RenderedAt(at_user_ids, k - 1) \o <<" ", "@">> \o at_user_ids[k]

AtAllToken == <<"@", "A", "l", "l", " ">>

\* C19: with AtAll() set, the mention-all token stands at the start of the
\* text before the At() mentions are appended: the offset of each At()
\* mention entity counts the token, being the length of the text (token
\* included) before that mention was appended, or one more when it skips
\* the separating space.
C19_AtAllBeforeMentions ==
    (Translated /\ _at_all /\ _at_user_ids # <<>>
        /\ Has(api_call.params, "entities")) =>
        LET entities == api_call.params.entities
            n == Len(entities) - Len(_at_user_ids)
            before(k) == AtAllToken \o RenderedSegments(invoked.message)
                         \o RenderedAt(_at_user_ids, k - 1)
        IN  /\ SubSeq(api_call.params.text, 1, Len(AtAllToken)) = AtAllToken
            /\ \A k \in 1..Len(_at_user_ids) :
                   entities[n + k].offset \in {Len(before(k)), Len(before(k)) + 1}

\* the media segment a translated message's call was built from
FirstMedia == MediaOf(invoked.message)[1]

\* the media reference of the call
MediaReference == api_call.params[FieldOfType[FirstMedia.type]]

MediaCall == Translated /\ MediaOf(invoked.message) # <<>>

\* C20 as stated: the media reference is the segment's file_id when
\* non-empty, else its url when non-empty, else the empty string.
C20_FileIdUrlOrEmpty ==
    MediaCall =>
        LET data == FirstMedia.data
        IN  MediaReference =
                IF Has(data, "file_id") /\ data.file_id # <<>> THEN data.file_id
                ELSE IF Has(data, "url") /\ data.url # <<>> THEN data.url
                ELSE <<>>

\* C20: the media reference is the segment's file_id when non-empty, else
\* its url when non-empty, else its file field when it has one, else the
\* empty string.
C20_MediaReferencePriority ==
    MediaCall =>
        LET data == FirstMedia.data
        IN  MediaReference =
                IF Has(data, "file_id") /\ data.file_id # <<>> THEN data.file_id
                ELSE IF Has(data, "url") /\ data.url # <<>> THEN data.url
                ELSE IF Has(data, "file") THEN data.file
                ELSE <<>>

C20_Witness ==
    /\ MediaCall
    /\ ~Has(FirstMedia.data, "file_id") /\ ~Has(FirstMedia.data, "url")
    /\ Has(FirstMedia.data, "file") /\ FirstMedia.data.file # <<>>
    /\ MediaReference = FirstMedia.data.file

\* a name was looked up on the Send object
LookedUp == invoked.method \in {"getattr", "unsupported_method"}

----------------------------------------------------------------------------
(* Properties of call_api *)

Called == api_request # NoRequest

CallResultKeys ==
    {"status", "retcode", "data", "message_id", "message", "telegram_raw"}

\* C14: call_api returns a normalized result and does not raise: a transport
\* failure, a call without a session included, gives status "failed" with a
\* retcode other than 0, and in every result status is "ok" exactly when
\* retcode is 0.
C14_CallApiNormalized ==
    Called =>
        /\ ~Has(response_data, "raised")
        /\ CallResultKeys \subseteq DOMAIN response_data
        /\ response_data.status \in {"ok", "failed"}
        /\ response_data.status = "ok" <=> response_data.retcode = 0
        /\ (api_request.session = "None" \/ api_request.outcome.kind = "exception") =>
               response_data.status = "failed" /\ response_data.retcode # 0

C14_Witness ==
    /\ Called
    /\ api_request.session = "None"
    /\ api_request.outcome.kind = "json"
    /\ api_request.outcome.body.ty = "dict"
    /\ Get(api_request.outcome.body.dict, "ok", FALSE)
    /\ response_data.status = "failed" /\ response_data.retcode = 33001

----------------------------------------------------------------------------
(* Properties of the polling loop *)

\* the events emitted for an update
EventsOf(update) == {j \in 1..Len(emitted) : emitted[j].telegram_raw = update}

\* C17: every update that a successful response carried and that the loop
\* has gone past (its update_id is below the offset when the loop is back
\* at the top) has exactly one event emitted for it, and the events are
\* emitted in the order of the updates.
C17_OneUpdateOneEvent ==
    poll_pc = "call" =>
        /\ \A i \in 1..Len(delivered) :
               delivered[i].fields.update_id < poll_offset =>
                   Cardinality(EventsOf(delivered[i])) = 1
        /\ \A j, k \in 1..Len(emitted) :
               j < k => emitted[j].telegram_raw.fields.update_id
                            < emitted[k].telegram_raw.fields.update_id

----------------------------------------------------------------------------
(* Properties of the entity resolver *)

\* the entities and the primary text of the message read
EntitiesRead == Get(MessageRead, "entities", <<>>)
PrimaryText == Get(MessageRead, "text", <<>>)

\* an entity with the fields every Telegram MessageEntity has
CompleteEntity(entity) ==
    Has(entity, "type") /\ Has(entity, "offset") /\ Has(entity, "length")

\* a handle entity whose span ends after the primary text
OutOfRange(entity) ==
    entity.type = "mention" /\ entity.offset + entity.length > Len(PrimaryText)

\* an entity that stands for a mention and is not out of range
Resolvable(entity) ==
    \/ entity.type = "mention" /\ ~OutOfRange(entity)
    \/ entity.type = "text_mention"

IsAtSegment(segment) == segment.type = "at"

\* the message read, without its entities
WithoutEntities ==
    [k \in DOMAIN MessageRead \ {"entities"} |-> MessageRead[k]]

\* convert has run on a message whose entities are complete and whose other
\* parts are converted without an exception
EntitiesConverted ==
    /\ ConvertedUpdate
    /\ _detect_event_type(raw_event)[1] = "message"
    /\ \A i \in 1..Len(EntitiesRead) : CompleteEntity(EntitiesRead[i])
    /\ ~_parse_message_content_raises(WithoutEntities)

\* C21: a "mention" entity whose offset + length exceeds the length of the
\* primary text yields no segment and no error, and the other entities of
\* the message are still resolved: the "at" segments of the event are, in
\* order, those of the remaining mention entities, and the segment of a
\* handle entity carries exactly text[offset : offset + length].
C21_MalformedMentionSkipped ==
    EntitiesConverted =>
        /\ MessageEvent
        /\ LET at == SelectSeq(onebot_event.message, IsAtSegment)
               kept == SelectSeq(EntitiesRead, Resolvable)
           IN  /\ Len(at) = Len(kept)
               /\ \A k \in 1..Len(kept) :
                      IF kept[k].type = "mention"
                      THEN at[k].data =
                               [name |-> SubSeq(PrimaryText, kept[k].offset + 1,
                                                kept[k].offset + kept[k].length)]
                      ELSE DOMAIN at[k].data = {"user_id", "name"}

\* an out-of-range handle entity before a valid one: one segment, "@bo"
C21_Witness ==
    /\ EntitiesConverted
    /\ Len(EntitiesRead) = 2
    /\ OutOfRange(EntitiesRead[1])
    /\ Resolvable(EntitiesRead[2]) /\ EntitiesRead[2].type = "mention"
    /\ MessageEvent
    /\ SelectSeq(onebot_event.message, IsAtSegment)
           = <<[type |-> "at", data |-> [name |-> <<"@", "b", "o">>]]>>

----------------------------------------------------------------------------
(* Properties of the mentions of the outbound translation *)

\* the mention segments of the translated message, in order
MentionsOf(message) == SelectSeq(message, IsMentionSegment)

\* the identifier a mention segment names its user by
SegmentUserId(segment) == Get(Get(segment, "data", EmptyDict), "user_id", <<>>)

\* the identifiers of the mentions of the last translation, in the order of
\* its entities: those of the mention segments, then the At() targets
MentionIds ==
    LET mentions == MentionsOf(invoked.message)
    IN  [i \in 1..Len(mentions) |-> SegmentUserId(mentions[i])] \o _at_user_ids

\* the identifier consists only of decimal digits
OnlyDigits(id) == id # <<>> /\ \A i \in 1..Len(id) : IsDecimal(id[i])

\* the place in message of its k-th mention segment
PlaceOfMention(message, k) ==
    CHOOSE i \in 1..Len(message) :
        /\ IsMentionSegment(message[i])
        /\ Len(MentionsOf(SubSeq(message, 1, i))) = k

\* the text of the call that stands before the k-th mention segment
TextBeforeMention(message, k) ==
    (IF _at_all THEN AtAllToken ELSE <<>>)
    \o RenderedSegments(SubSeq(message, 1, PlaceOfMention(message, k) - 1))

\* a text call was translated from a message with mentions or after At()
MentionsTranslated ==
    Translated /\ api_call.endpoint = "sendMessage" /\ Len(MentionIds) > 0

\* the kind of every entity follows the identifier of its mention
EntityKindsFollowIds ==
    /\ Has(api_call.params, "entities")
    /\ Len(api_call.params.entities) = Len(MentionIds)
    /\ \A k \in 1..Len(MentionIds) :
           LET entity == api_call.params.entities[k]
           IN  IF OnlyDigits(MentionIds[k])
               THEN /\ entity.type = "text_mention"
                    /\ entity.user = [id |-> DigitsValue(MentionIds[k])]
               ELSE /\ entity.type = "mention"
                    /\ ~Has(entity, "user")

\* C22: every mention of a translated text call, from a mention/at segment
\* or from an At() target, has an entity that is a text_mention carrying
\* the numeric id exactly when its identifier consists of digits and a
\* mention without user otherwise; a segment mention without a name is
\* rendered as "@" and the identifier, and its entity's offset is the
\* length of all text of the call before that token.
C22_MentionEntityKind ==
    MentionsTranslated =>
        /\ EntityKindsFollowIds
        /\ LET mentions == MentionsOf(invoked.message)
               text == api_call.params.text
           IN  \A k \in 1..Len(mentions) :
                   ~Has(Get(mentions[k], "data", EmptyDict), "name") =>
                       LET token == <<"@">> \o MentionIds[k]
                           before == TextBeforeMention(invoked.message, k)
                           entity == api_call.params.entities[k]
                       IN  /\ SubSeq(text, 1, Len(before) + Len(token))
                                  = before \o token
                           /\ entity.length = Len(token)
                           /\ entity.offset = Len(before)

----------------------------------------------------------------------------
(* Properties of the notice and request events *)

\* detail_type by subtype
SubtypeDetailType ==
    [callback_query |-> "telegram_callback_query",
     poll |-> "telegram_poll",
     poll_answer |-> "telegram_poll_answer",
     chosen_inline_result |-> "telegram_chosen_inline_result",
     my_chat_member |-> "telegram_my_chat_member",
     chat_member |-> "telegram_chat_member",
     inline_query |-> "telegram_inline_query",
     shipping_query |-> "telegram_shipping_query",
     pre_checkout_query |-> "telegram_pre_checkout_query",
     chat_join_request |-> "telegram_chat_join_request"]

\* convert returned the event of a notice or request subtype
SubtypeEvent ==
    EventReturned /\ onebot_event.telegram_raw_type \in DOMAIN SubtypeDetailType

\* the subtype of the event and the payload its handler read
Subtype == onebot_event.telegram_raw_type
SubtypePayload == raw_event.fields[Subtype]

\* the keys of the event of the same subtype whose payload holds no field
KeysOfEmptyPayload == DOMAIN convert(Single(Subtype, EmptyDict), 0)

\* the keys that address the event: they follow the chat of the payload
AddressKeys == {"message_id", "group_id", "channel_id"}

\* the chat of the payload decides between group_id and channel_id
ChatAddressed(chat) ==
    IF Get(chat, "type", "") = "channel"
    THEN Has(onebot_event, "channel_id") /\ ~Has(onebot_event, "group_id")
    ELSE Has(onebot_event, "group_id") /\ ~Has(onebot_event, "channel_id")

\* C23 as stated: the detail_type of a notice or request is
\* "telegram_<subtype>" and the set of keys of the event is the same for
\* every payload of the subtype.
C23_SameKeysForEveryPayload ==
    SubtypeEvent =>
        /\ onebot_event.detail_type = SubtypeDetailType[Subtype]
        /\ DOMAIN onebot_event = KeysOfEmptyPayload

\* C23, amended: the detail_type is "telegram_<subtype>"; apart from
\* message_id, group_id and channel_id the set of keys is the same for every
\* payload of the subtype; a chat member update and a join request carry
\* exactly one of group_id and channel_id, by the type of their chat; a
\* callback query carries message_id exactly when it has a message, and one
\* of group_id and channel_id exactly when that message has a chat; the
\* other subtypes carry none of the three.
C23_SchemaStable ==
    SubtypeEvent =>
        /\ onebot_event.detail_type = SubtypeDetailType[Subtype]
        /\ DOMAIN onebot_event \ AddressKeys = KeysOfEmptyPayload \ AddressKeys
        /\ CASE Subtype \in {"my_chat_member", "chat_member", "chat_join_request"} ->
                  /\ ChatAddressed(Get(SubtypePayload, "chat", EmptyDict))
                  /\ ~Has(onebot_event, "message_id")
             [] Subtype = "callback_query" ->
                  /\ Has(onebot_event, "message_id") <=> Has(SubtypePayload, "message")
                  /\ IF Has(SubtypePayload, "message")
                         /\ Has(SubtypePayload.message, "chat")
                     THEN ChatAddressed(SubtypePayload.message.chat)
                     ELSE DOMAIN onebot_event \cap {"group_id", "channel_id"} = {}
             [] OTHER -> DOMAIN onebot_event \cap AddressKeys = {}

\* an inline query without chat_type and a join request for a channel
C23_Witness ==
    /\ SubtypeEvent
    /\ \/ /\ Subtype = "inline_query"
          /\ DOMAIN SubtypePayload = {"id", "from"}
          /\ onebot_event.telegram_query_chat_type = None
          /\ onebot_event.telegram_query_text = <<>>
       \/ /\ Subtype = "chat_join_request"
          /\ DOMAIN SubtypePayload = {"chat"}
          /\ Has(onebot_event, "channel_id")
          /\ onebot_event.telegram_date = 0

----------------------------------------------------------------------------
(* Properties of the reply target *)

\* a reply target that int() does not take
Unparseable(x) == x.ty = "str" /\ x.str # <<>> /\ ~CanInt(x)

\* the message_id of a reply segment
ReplyTargetOf(segment) ==
    Get(Get(segment, "data", EmptyDict), "message_id", PyNone)

IsUnparseableReply(segment) ==
    IsReplySegment(segment) /\ Unparseable(ReplyTargetOf(segment))

KeepsTarget(segment) == ~IsUnparseableReply(segment)

\* the target set with Reply(), taken as absent when it is unparseable
ModifierIgnored ==
    IF Unparseable(_reply_message_id) THEN PyNone ELSE _reply_message_id

\* no reply target that int() takes is left, in the message or on the object
NoTargetLeft(message) ==
    /\ ~CanInt(_reply_message_id)
    /\ \A i \in 1..Len(message) :
           IsReplySegment(message[i]) => ~CanInt(ReplyTargetOf(message[i]))

\* a mention of the message makes the translation raise (int of a digit that
\* is no decimal digit)
MentionFails(message) ==
    \E i \in 1..Len(message) :
        IsMentionSegment(message[i]) /\ MentionRaises(SegmentUserId(message[i]))

\* Text() or a media send in URL mode was called after Reply() with an
\* unparseable target
SentWithBadReply ==
    /\ send_pc = "sent"
    /\ invoked.method \in {"Text"} \cup DOMAIN UrlMediaMethods
    /\ Unparseable(_reply_message_id)

\* Raw_ob12 translated a message with an unparseable reply target in a
\* segment or from Reply()
TranslatedWithBadReply ==
    /\ send_pc = "sent"
    /\ invoked.method = "Raw_ob12"
    /\ ~MentionFails(invoked.message)
    /\ \/ Unparseable(_reply_message_id)
       \/ \E i \in 1..Len(invoked.message) : IsUnparseableReply(invoked.message[i])

\* C24: a reply target that cannot be parsed as an integer is ignored in
\* every send path: Text, the media sends in URL mode and
\* _convert_ob12_to_telegram raise nothing and produce the call they
\* produce without that target, and the call has no reply_to_message_id
\* unless another target that int() takes is present.
C24_BadReplyIgnored ==
    /\ SentWithBadReply =>
           /\ ~Has(api_call, "raised")
           /\ ~Has(api_call.params, "reply_to_message_id")
           /\ api_call =
                  IF invoked.method = "Text"
                  THEN Text_call(invoked.text, _at_user_ids, PyNone, _at_all)
                  ELSE UrlMedia_call(invoked.method, invoked.file, invoked.caption,
                                     invoked.content_type, PyNone)
           /\ api_call.endpoint =
                  IF invoked.method = "Text" THEN "sendMessage"
                  ELSE UrlMediaMethods[invoked.method][1]
    /\ TranslatedWithBadReply =>
           /\ ~Has(api_call, "raised")
           /\ api_call = _convert_ob12_to_telegram(
                             SelectSeq(invoked.message, KeepsTarget),
                             _at_user_ids, ModifierIgnored, _at_all)
           /\ NoTargetLeft(invoked.message) =>
                  ~Has(api_call.params, "reply_to_message_id")

\* Reply("x") before Image(url): a sendPhoto call without reply_to_message_id
C24_Witness ==
    /\ SentWithBadReply
    /\ invoked.method = "Image"
    /\ _reply_message_id = PyStr(<<"x">>)
    /\ api_call.endpoint = "sendPhoto"
    /\ DOMAIN api_call.params = {"chat_id", "photo", "caption"}

----------------------------------------------------------------------------
(* Properties of the chain modifiers *)

\* the call of Text(text) on a Send object with the modifiers mods
TextWith(text, mods) == Text_call(text, mods[1], mods[2], mods[3])

\* the modifiers of a new Send object
FreshModifiers == <<<<>>, PyNone, FALSE>>

\* C25: on a Send object in any state of its chain, modifiers of different
\* kinds commute: Reply(m).At(u).Text(t) and At(u).Reply(m).Text(t) issue
\* the same call, and so with AtAll() before, between or after them;
\* At(u).At(v) accumulates u then v after the targets already set, and of
\* Reply(m).Reply(n) the later one replaces the earlier.
C25_ModifiersCommute ==
    send_pc = "chain" =>
        \A u \in AtTargets, m \in ReplyArguments, t \in Texts :
            LET mods == modifiers
                ra == At_modifiers(Reply_modifiers(mods, m), u)
                ar == Reply_modifiers(At_modifiers(mods, u), m)
            IN  /\ TextWith(t, ra) = TextWith(t, ar)
                /\ ra = ar
                /\ At_modifiers(AtAll_modifiers(mods), u)
                       = AtAll_modifiers(At_modifiers(mods, u))
                /\ Reply_modifiers(AtAll_modifiers(mods), m)
                       = AtAll_modifiers(Reply_modifiers(mods, m))
                /\ \A p \in {AtAll_modifiers(ra), At_modifiers(AtAll_modifiers(
                                                    Reply_modifiers(mods, m)), u),
                             At_modifiers(Reply_modifiers(AtAll_modifiers(mods), m), u),
                             Reply_modifiers(AtAll_modifiers(At_modifiers(mods, u)), m)} :
                       TextWith(t, p) = TextWith(t, AtAll_modifiers(ar))
                /\ \A v \in AtTargets :
                       At_modifiers(At_modifiers(mods, u), v)[1] = mods[1] \o <<u, v>>
                /\ \A n \in ReplyArguments :
                       /\ Reply_modifiers(Reply_modifiers(mods, m), n)
                              = Reply_modifiers(mods, n)
                       /\ m # n /\ CanInt(n) =>
                              TextWith(t, Reply_modifiers(Reply_modifiers(mods, m), n))
                                  .params.reply_to_message_id = IntOf(n)

\* Text("hi") was called after Reply("5"), AtAll() and At("9") in some
\* order: the call is the one of the other orders
C25_Witness ==
    /\ send_pc = "sent"
    /\ invoked.method = "Text"
    /\ invoked.text = <<"h", "i">>
    /\ modifiers = AtAll_modifiers(At_modifiers(
                       Reply_modifiers(FreshModifiers, PyStr(<<"5">>)), <<"9">>))
    /\ api_call = TextWith(<<"h", "i">>,
                           Reply_modifiers(At_modifiers(AtAll_modifiers(FreshModifiers),
                                                        <<"9">>), PyStr(<<"5">>)))
    /\ api_call.params.reply_to_message_id = 5

----------------------------------------------------------------------------
(* Properties of the entities of Text() *)

\* Text() was called and returned a call
TextSent == send_pc = "sent" /\ invoked.method = "Text" /\ ~Has(api_call, "raised")

\* C26: each entity that Text() attaches covers, in the text parameter of
\* the call, exactly "@" followed by the At() target it stands for, and the
\* entities stand in the order of the At() calls, whatever targets were set
\* and whether AtAll() was called.
C26_TextEntitySpans ==
    (TextSent /\ _at_user_ids # <<>>) =>
        /\ Has(api_call.params, "entities")
        /\ Len(api_call.params.entities) = Len(_at_user_ids)
        /\ \A k \in 1..Len(_at_user_ids) :
               Covered(api_call.params.text, api_call.params.entities[k])
                   = <<"@">> \o _at_user_ids[k]

----------------------------------------------------------------------------
(* Properties of the classifier and the handlers together *)

\* convert has run on an update with an update_id and a recognized key
RecognizedConverted ==
    ConvertedUpdate /\ DOMAIN raw_event.fields \cap RecognizedKeys # {}

\* the key the classifier reports for the update
ReportedKey == _event_type_map[FirstDeclared(raw_event)][1]

\* the update with update_id and the reported key alone
OnlyReportedKey ==
    [order |-> <<"update_id", ReportedKey>>,
     fields |-> [k \in {"update_id", ReportedKey} |-> raw_event.fields[k]]]

\* an event without the copy of the update it was built from
WithoutRaw(event) ==
    IF Has(event, "telegram_raw")
    THEN [k \in DOMAIN event \ {"telegram_raw"} |-> event[k]]
    ELSE event

EditedKeys == {"edited_message", "edited_channel_post"}

\* C27: for an update with one or more recognized keys the handler reads the
\* payload under the key the classifier reports: telegram_raw_type is that
\* key, every other field of the event is what the conversion of the update
\* holding that key alone gives, and telegram_edit_time is attached exactly
\* when the key is an edited variant.
C27_ClassifierHandlerAgree ==
    RecognizedConverted =>
        /\ \E now \in Times :
               WithoutRaw(onebot_event) = WithoutRaw(convert(OnlyReportedKey, now))
        /\ EventReturned =>
               /\ onebot_event.telegram_raw_type = ReportedKey
               /\ Has(onebot_event, "telegram_edit_time") <=> ReportedKey \in EditedKeys

\* an edited message beside an edited channel post, and a chat member update
\* beside one of the bot itself
C27_Witness ==
    /\ EventReturned
    /\ \/ /\ raw_event.order = <<"update_id", "edited_channel_post", "edited_message">>
          /\ onebot_event.telegram_raw_type = "edited_message"
          /\ onebot_event.message_id = <<"2">>
          /\ Has(onebot_event, "telegram_edit_time")
       \/ /\ raw_event.order = <<"update_id", "chat_member", "my_chat_member">>
          /\ onebot_event.detail_type = "telegram_my_chat_member"
          /\ onebot_event.user_id = <<"5">>
          /\ Has(onebot_event, "group_id")

----------------------------------------------------------------------------
(* Properties of the polling loop *)

\* this step takes the first update of the response in the for loop
TakesUpdate ==
    /\ poll_pc = "handle"
    /\ <<poll_offset, updates, emitted, poll_pc>>' # <<poll_offset, updates, emitted, poll_pc>>

\* C28: the offset of the polling loop never decreases; the step that takes
\* an update with id u from a response leaves an offset of at least u + 1,
\* also when the conversion of that update raises; every other step (a
\* request, a response that is not ok, an exception of the request) leaves
\* the offset as it is.
C28_OffsetBookkeeping ==
    [][/\ poll_offset' >= poll_offset
       /\ IF TakesUpdate /\ KeyIn(Head(updates), "update_id")
          THEN LET u == Head(updates).fields.update_id
               IN  /\ poll_offset' >= u + 1
                   /\ poll_offset' \in {poll_offset, u + 1}
          ELSE poll_offset' = poll_offset]_vars

\* the loop is back at its top after a response that was not ok, with the
\* offset that two taken updates left
C28_Witness ==
    /\ poll_pc = "call"
    /\ Has(response, "status") /\ response.status # "ok"
    /\ poll_offset = 3
    /\ Len(delivered) >= 2

----------------------------------------------------------------------------
\* the response of the last getUpdates request is a failure
FailedResponse ==
    Has(response, "status") /\ response.status # "ok"

\* the loop stands before its next getUpdates request
AtRequest == poll_pc = "call"

\* the loop has its request answered
Requested == poll_pc = "check"

\* the poll task was cancelled
Cancelled == poll_pc = "cancelled"

\* the loop is inside a turn: checking a response or handling its updates
InTurn == poll_pc \in {"check", "handle"}

\* a step that emits an event
Emits == emitted' # emitted

\* a step that ends the loop
LoopEnds ==
    poll_pc \in {"call", "check", "handle"} /\ poll_pc' \notin {"call", "check", "handle"}

\* C29: the polling loop survives every failure. A step taken on a response
\* whose status is not ok emits nothing and brings the loop back before its
\* request; every turn of the loop, whether it ends normally, on a failed
\* response or on an exception of the conversion or the emit, is followed by
\* the loop standing before its next request, and every such stand by a
\* request that is issued, unless the task is cancelled; the loop ends only
\* in the shutdown that cancels its task.
C29_LoopSurvivesFailures ==
    /\ [][/\ Emits => (poll_pc = "handle" /\ ~FailedResponse)
          /\ (Requested /\ FailedResponse /\ poll_pc' # poll_pc)
                 => (~Emits /\ (AtRequest' \/ Cancelled'))
          /\ LoopEnds => (Cancelled' /\ poll_task = "running" /\ poll_task' = "None")]_vars
    /\ InTurn ~> (AtRequest \/ Cancelled)
    /\ AtRequest ~> (Requested \/ Cancelled)

\* the loop stands before its next request after a failed response, with an
\* update of an earlier response left unemitted by an exception
C29_Witness ==
    /\ poll_task = "running" /\ AtRequest
    /\ FailedResponse
    /\ poll_offset > 0
    /\ emitted = <<>>

----------------------------------------------------------------------------
\* the poll tasks that still run
RunningTasks == {i \in 1..Len(tasks) : tasks[i] = "running"}

\* no shutdown is needed, or the last shutdown has completed
IsShutDown == poll_task = "None"

\* C30: start/shutdown lifecycle. After any sequence of start() and
\* shutdown() at most one polling task runs; while the adapter is shut down
\* no polling task runs, poll_task and session are both unset, no step emits
\* an event, and a further shutdown() changes nothing.
C30_Lifecycle ==
    /\ [](Cardinality(RunningTasks) <= 1)
    /\ [](IsShutDown => (session = "None" /\ RunningTasks = {}))
    /\ [][IsShutDown => (emitted' = emitted /\ (IsShutDown' => UNCHANGED lifecycleVars))]_vars

====
